---- MODULE Spec2Model ----
(***************************************************************************)
(* Model of the paper-correction pipeline: the transcription orchestrator  *)
(* (extraction.py), the semantic comparator (compare.py), the score        *)
(* aggregator (evaluation.py), the feedback generator (feedback.py), the   *)
(* pipeline that chains them (pipeline.py) and the calibration store       *)
(* (database.py).                                                          *)
(*                                                                         *)
(* The specifications share the variables:                                 *)
(*   SpecExtract  - extract_documents: teacher, student, optional          *)
(*                  reference, page by page under the rate-limit gate      *)
(*                  (SpecExtractLive: the same with weak fairness);        *)
(*   SpecCompare  - compare_documents: one task per matched page pair on   *)
(*                  the comparator's thread pool, each running             *)
(*                  compare_texts / compare_with_gemini with its retries;  *)
(*   SpecPool     - compare_documents on more pages than the pool has      *)
(*                  workers;                                               *)
(*   SpecEval     - evaluate_comparisons on a list of comparison records;  *)
(*   SpecGrade    - calculate_grade;                                       *)
(*   SpecFeedback - generate_complete_feedback;                            *)
(*   SpecPipeline - one run of run_correction_pipeline;                    *)
(*   SpecDb       - calls on one ResultsDB.                                *)
(*                                                                         *)
(* Numbers: similarities, marks, percentages and confidences are held in   *)
(* hundredths (0.8 is 80, 33.33 marks is 3333); total_marks is held in     *)
(* whole marks.  Texts are run-length encoded strings: a sequence of runs  *)
(* [ch, n], n >= 1, adjacent runs having different characters.             *)
(***************************************************************************)
EXTENDS Integers, Sequences, FiniteSets, TLC

VARIABLES
    \* ---- extraction.py ----
    docs,             \* the files handed to extract_documents, in call order
    ex_pc,            \* position of the extraction coroutine
    ex_doc,           \* index in docs of the file being extracted
    ex_page,          \* enumerate index i of the page being transcribed
    rate_limit_lock,  \* value of DocumentExtractor.rate_limit_lock
    inflight,         \* generate_content_async calls issued and not yet ended
    calls_issued,     \* generate_content_async calls issued for the current file
    pages_content,    \* extract_from_file's pages_content
    final_name,       \* extract_from_file's final_name
    final_roll,       \* extract_from_file's final_roll
    extracted,        \* what extract_from_file returned, per file of docs
    raised,           \* <<file, page_no>> of the transcription calls that raised
    \* ---- compare.py ----
    method,           \* SemanticComparator.method
    teacher_pages,    \* teacher_data["pages"]
    student_pages,    \* student_data["pages"]
    cmp_pc,           \* position of compare_documents
    task_pc,          \* per task: queued, calling, sleeping, done
    attempt,          \* per task: compare_with_gemini's loop variable
    grading_calls,    \* per task: generate_content calls issued
    wait_time,        \* per task: seconds of the time.sleep being taken
    error_msgs,       \* per task: classes of the exceptions handled so far
    received,         \* per task: the response the returning call carried
    requests,         \* the grading requests issued: [task, key, student]
    task_result,      \* per task: the record compare_page_async returned
    results,          \* what compare_documents returned
    \* ---- evaluation.py ----
    total_marks,        \* Evaluator.total_marks (whole marks)
    pass_threshold,     \* Evaluator.pass_threshold (percent)
    comparison_results, \* the argument of evaluate_comparisons
    ev_pc,              \* ready, returned, raised
    evaluation,         \* the report evaluate_comparisons returned
    ev_returns,         \* what the calls made on the Evaluator returned, in order
    grades,             \* the calculate_grade calls made: [percentage, grade]
    \* ---- pipeline.py ----
    run_pc,             \* position of run_correction_pipeline / run_async
    api_key,            \* kind of the GEMINI_API_KEY of the environment
    save_results,       \* run_async's save_results
    evaluation_report,  \* what evaluation_phase returned
    feedback,           \* what feedback_phase returned
    saved,              \* the files _save_results has written
    run_error,          \* class of the exception the run ended with
    \* ---- database.py ----
    db_rows,            \* the rows of table results
    db_seq,             \* sqlite_sequence of results: the largest id given
    db_log,             \* the calls made on ResultsDB, in order, and their outcome
    \* ---- feedback.py ----
    use_ai,             \* FeedbackGenerator.use_ai
    gemini_model,       \* FeedbackGenerator.gemini_model is not None
    fb_requests,        \* the prompts sent by _generate_ai_feedback
    fb_log              \* the generate_complete_feedback calls: arguments, text

exVars == <<docs, ex_pc, ex_doc, ex_page, rate_limit_lock, inflight,
            calls_issued, pages_content, final_name, final_roll, extracted,
            raised>>
cmpVars == <<method, teacher_pages, student_pages, cmp_pc, task_pc, attempt,
             grading_calls, wait_time, error_msgs, received, requests,
             task_result, results>>
evVars == <<total_marks, pass_threshold, comparison_results, ev_pc, evaluation,
            ev_returns, grades>>
plVars == <<run_pc, api_key, save_results, evaluation_report, feedback, saved,
            run_error>>
dbVars == <<db_rows, db_seq, db_log>>
fbVars == <<use_ai, gemini_model, fb_requests, fb_log>>
vars == <<exVars, cmpVars, evVars, plVars, dbVars, fbVars>>

None == [none |-> TRUE]

Min(a, b) == IF a <= b THEN a ELSE b
Max(a, b) == IF a >= b THEN a ELSE b

(***************************************************************************)
(* Texts                                                                   *)
(***************************************************************************)
EmptyText == <<>>

\* The string made of k copies of character c.
Run(c, k) == IF k <= 0 THEN <<>> ELSE <<[ch |-> c, n |-> k]>>

\* len(t)
RECURSIVE TextLen(_)
TextLen(t) == IF t = <<>> THEN 0 ELSE Head(t).n + TextLen(Tail(t))

\* a + b
Concat(a, b) ==
    IF a = <<>> THEN b
    ELSE IF b = <<>> THEN a
    ELSE IF a[Len(a)].ch = b[1].ch
         THEN SubSeq(a, 1, Len(a) - 1)
              \o <<[ch |-> b[1].ch, n |-> a[Len(a)].n + b[1].n]>>
              \o Tail(b)
         ELSE a \o b

\* t[:k]
RECURSIVE Slice(_, _)
Slice(t, k) ==
    IF t = <<>> \/ k <= 0 THEN <<>>
    ELSE IF Head(t).n <= k
         THEN Concat(<<Head(t)>>, Slice(Tail(t), k - Head(t).n))
         ELSE <<[ch |-> Head(t).ch, n |-> k]>>

\* not str(t).strip(): nothing but whitespace
IsBlank(t) == \A i \in 1..Len(t) : t[i].ch = " "

(***************************************************************************)
(* extraction.py                                                           *)
(***************************************************************************)
\* Most page images of one PDF.
MaxPages == 2

\* A file handed to extract_from_file: a PDF of 1..MaxPages pages, or a file
\* that convert_from_path / Image.open cannot read.
PdfFiles(source) ==
    {[source |-> source, file_name |-> source, readable |-> FALSE, images |-> 0]}
    \cup {[source |-> source, file_name |-> source, readable |-> TRUE,
           images |-> k] : k \in 1..MaxPages}

\* A non-PDF file is opened as one image.
ImageFiles(source) ==
    {[source |-> source, file_name |-> source, readable |-> r,
      images |-> IF r THEN 1 ELSE 0] : r \in BOOLEAN}

\* The texts response.text may hold.  name_tag, roll_tag, content_tag: the
\* tag occurs in the text; conf_kind: "none" when the confidence pattern does
\* not match, "bad" when the matched digits-and-dots are no float ("1.2.3"),
\* "num" otherwise, conf then being the number in hundredths.
TranscriptionResponses ==
    { [raw |-> Run("u", 4), name_tag |-> FALSE, roll_tag |-> FALSE,
       content_tag |-> FALSE, conf_kind |-> "none", conf |-> 0,
       name |-> "", roll |-> "", content |-> EmptyText],
      [raw |-> Run("f", 9), name_tag |-> TRUE, roll_tag |-> TRUE,
       content_tag |-> TRUE, conf_kind |-> "num", conf |-> 90,
       name |-> "Asha", roll |-> "42", content |-> Run("a", 3)],
      [raw |-> Run("g", 8), name_tag |-> TRUE, roll_tag |-> TRUE,
       content_tag |-> TRUE, conf_kind |-> "num", conf |-> 8500,
       name |-> "", roll |-> "", content |-> Run("b", 2)],
      [raw |-> Run("h", 7), name_tag |-> TRUE, roll_tag |-> TRUE,
       content_tag |-> TRUE, conf_kind |-> "bad", conf |-> 0,
       name |-> "Ravi", roll |-> "7", content |-> Run("c", 2)] }

\* enumerate index -> page_no
PageNumber(i) == i + 1

\* transcribe_page's parse of the response text into the page record.
ParseTranscription(r, page_no) ==
    LET tagged == r.name_tag /\ r.content_tag
        \* split("METADATA_ROLL:")[1] raises without the tag, float() raises
        \* on a bad number: the inner except leaves every default in place
        parsed == tagged /\ r.roll_tag /\ r.conf_kind # "bad"
    IN [page_no |-> page_no,
        content |-> IF parsed THEN r.content ELSE r.raw,
        student_name |-> IF parsed /\ r.name # "" THEN r.name ELSE "Unknown",
        roll_no |-> IF parsed /\ r.roll # "" THEN r.roll ELSE "Unknown",
        extraction_confidence |->
            IF parsed /\ r.conf_kind = "num" THEN r.conf ELSE 0,
        raw_text |-> r.raw]

\* The record transcribe_page returns when the call raised.
FailedPage(page_no) ==
    [page_no |-> page_no,
     content |-> EmptyText,
     student_name |-> "Unknown",
     roll_no |-> "Unknown",
     extraction_confidence |-> 0]

\* extract_documents moves on to the next file, or returns.
AfterFile == IF ex_doc < Len(docs) THEN "begin_file" ELSE "done"
NextFile == IF ex_doc < Len(docs) THEN ex_doc + 1 ELSE ex_doc

\* extract_from_file up to its first transcribe_page: reading the file.
BeginFile ==
    /\ ex_pc = "begin_file"
    /\ pages_content' = <<>>
    /\ final_name' = "Unknown"
    /\ final_roll' = "Unknown"
    /\ ex_page' = 0
    /\ calls_issued' = 0
    /\ IF docs[ex_doc].readable
       THEN /\ ex_pc' = "gate"
            /\ UNCHANGED <<extracted, ex_doc>>
       ELSE /\ extracted' = Append(extracted,
                  [source |-> docs[ex_doc].source, pages |-> <<>>,
                   error |-> TRUE])
            /\ ex_pc' = AfterFile
            /\ ex_doc' = NextFile
    /\ UNCHANGED <<docs, rate_limit_lock, inflight, raised>>

\* async with self.rate_limit_lock: enter
AcquireGate_NoGate ==
    /\ ex_pc = "gate"
    /\ ex_pc' = "sleep"
    /\ UNCHANGED <<docs, ex_doc, ex_page, rate_limit_lock, inflight,
                   calls_issued, pages_content, final_name, final_roll,
                   extracted, raised>>
AcquireGate_NoSleep ==
    /\ ex_pc = "gate"
    /\ rate_limit_lock > 0
    /\ rate_limit_lock' = rate_limit_lock - 1
    /\ ex_pc' = IF ex_page = 0 THEN "sleep" ELSE "call"
    /\ UNCHANGED <<docs, ex_doc, ex_page, inflight, calls_issued,
                   pages_content, final_name, final_roll, extracted, raised>>
AcquireGate ==
    /\ ex_pc = "gate"
    /\ rate_limit_lock > 0
    /\ rate_limit_lock' = rate_limit_lock - 1
    /\ ex_pc' = "sleep"
    /\ UNCHANGED <<docs, ex_doc, ex_page, inflight, calls_issued,
                   pages_content, final_name, final_roll, extracted, raised>>

\* await asyncio.sleep(5)
Sleep ==
    /\ ex_pc = "sleep"
    /\ ex_pc' = "call"
    /\ UNCHANGED <<docs, ex_doc, ex_page, rate_limit_lock, inflight,
                   calls_issued, pages_content, final_name, final_roll,
                   extracted, raised>>

\* self.model.generate_content_async([prompt, image]) is issued
IssueCall ==
    /\ ex_pc = "call"
    /\ ex_pc' = "inflight"
    /\ inflight' = inflight + 1
    /\ calls_issued' = calls_issued + 1
    /\ UNCHANGED <<docs, ex_doc, ex_page, rate_limit_lock, pages_content,
                   final_name, final_roll, extracted, raised>>

\* transcribe_page returned result: the gate is released, extract_from_file
\* appends the record and goes to the next page or returns the document.
FinishPage(result) ==
    LET d == docs[ex_doc]
        pages == Append(pages_content, result)
        name == IF ex_page = 0 /\ d.source = "student"
                THEN result.student_name ELSE final_name
        roll == IF ex_page = 0 /\ d.source = "student"
                THEN result.roll_no ELSE final_roll
    IN /\ rate_limit_lock' = rate_limit_lock + 1
       /\ pages_content' = pages
       /\ final_name' = name
       /\ final_roll' = roll
       /\ IF ex_page + 1 < d.images
          THEN /\ ex_page' = ex_page + 1
               /\ ex_pc' = "gate"
               /\ UNCHANGED <<extracted, ex_doc>>
          ELSE /\ ex_page' = ex_page
               /\ extracted' = Append(extracted,
                     [source |-> d.source,
                      total_pages |-> Len(pages),
                      pages |-> pages,
                      file_name |-> d.file_name,
                      student_name |-> name,
                      roll_no |-> roll])
               /\ ex_pc' = AfterFile
               /\ ex_doc' = NextFile
       /\ UNCHANGED <<docs, calls_issued>>

\* The call returns a response, one of responses.
CallReturnsWith(responses) ==
    /\ ex_pc = "inflight"
    /\ inflight' = inflight - 1
    /\ \E r \in responses :
          FinishPage(ParseTranscription(r, PageNumber(ex_page)))
    /\ UNCHANGED raised
CallReturns == CallReturnsWith(TranscriptionResponses)

\* The call (or reading response.text) raises: the except of transcribe_page.
CallRaises_Propagates ==
    /\ ex_pc = "inflight"
    /\ inflight' = inflight - 1
    /\ raised' = raised \cup {<<ex_doc, PageNumber(ex_page)>>}
    /\ rate_limit_lock' = rate_limit_lock + 1
    /\ extracted' = Append(extracted,
           [source |-> docs[ex_doc].source, pages |-> <<>>, error |-> TRUE])
    /\ ex_pc' = AfterFile
    /\ ex_doc' = NextFile
    /\ UNCHANGED <<docs, ex_page, calls_issued, pages_content,
                   final_name, final_roll>>
CallRaises_DropsPage ==
    /\ ex_pc = "inflight"
    /\ inflight' = inflight - 1
    /\ raised' = raised \cup {<<ex_doc, PageNumber(ex_page)>>}
    /\ rate_limit_lock' = rate_limit_lock + 1
    /\ IF ex_page + 1 < docs[ex_doc].images
       THEN /\ ex_page' = ex_page + 1
            /\ ex_pc' = "gate"
            /\ UNCHANGED <<extracted, ex_doc>>
       ELSE /\ ex_page' = ex_page
            /\ extracted' = Append(extracted,
                  [source |-> docs[ex_doc].source,
                   total_pages |-> Len(pages_content),
                   pages |-> pages_content,
                   file_name |-> docs[ex_doc].file_name,
                   student_name |-> final_name,
                   roll_no |-> final_roll])
            /\ ex_pc' = AfterFile
            /\ ex_doc' = NextFile
    /\ UNCHANGED <<docs, calls_issued, pages_content, final_name, final_roll>>
CallRaises_KeepsGate ==
    /\ ex_pc = "inflight"
    /\ inflight' = inflight - 1
    /\ raised' = raised \cup {<<ex_doc, PageNumber(ex_page)>>}
    /\ pages_content' = Append(pages_content, FailedPage(PageNumber(ex_page)))
    /\ IF ex_page + 1 < docs[ex_doc].images
       THEN /\ ex_page' = ex_page + 1
            /\ ex_pc' = "gate"
            /\ UNCHANGED <<extracted, ex_doc>>
       ELSE /\ ex_page' = ex_page
            /\ extracted' = Append(extracted,
                  [source |-> docs[ex_doc].source,
                   total_pages |-> Len(pages_content'),
                   pages |-> pages_content',
                   file_name |-> docs[ex_doc].file_name,
                   student_name |-> final_name,
                   roll_no |-> final_roll])
            /\ ex_pc' = AfterFile
            /\ ex_doc' = NextFile
    /\ UNCHANGED <<docs, calls_issued, rate_limit_lock, final_name, final_roll>>
CallRaises ==
    /\ ex_pc = "inflight"
    /\ inflight' = inflight - 1
    /\ raised' = raised \cup {<<ex_doc, PageNumber(ex_page)>>}
    /\ FinishPage(FailedPage(PageNumber(ex_page)))

ExtractIdle ==
    /\ docs = <<>>
    /\ ex_pc = "idle"
    /\ ex_doc = 0
    /\ ex_page = 0
    /\ rate_limit_lock = 1
    /\ inflight = 0
    /\ calls_issued = 0
    /\ pages_content = <<>>
    /\ final_name = "Unknown"
    /\ final_roll = "Unknown"
    /\ extracted = <<>>
    /\ raised = {}

\* extract_documents(teacher_path, student_path, reference_path): a fresh
\* DocumentExtractor, its gate free.
InitExtract ==
    /\ \E t \in PdfFiles("teacher"), s \in PdfFiles("student") :
          \/ docs = <<t, s>>
          \/ \E r \in ImageFiles("reference") : docs = <<t, s, r>>
    /\ ex_pc = "begin_file"
    /\ ex_doc = 1
    /\ ex_page = 0
    /\ rate_limit_lock = 1
    /\ inflight = 0
    /\ calls_issued = 0
    /\ pages_content = <<>>
    /\ final_name = "Unknown"
    /\ final_roll = "Unknown"
    /\ extracted = <<>>
    /\ raised = {}

(***************************************************************************)
(* compare.py                                                              *)
(***************************************************************************)
\* text1[:2000], text2[:2000] in the grading prompt
PromptLimit == 2000
\* compare_with_gemini(..., retry_count = 3)
RetryCount == 3
\* ThreadPoolExecutor(max_workers=3)
MaxWorkers == 3

\* The character a page's text is made of, one per document and page.
PageChars == <<"a", "b", "c", "d", "e", "f", "g", "h">>
KeyChar(k) == PageChars[k]
ScriptChar(k) == PageChars[k + 4]

\* teacher_data["pages"]: n pages, the even ones longer than the prompt
\* limit; or the same with a first page whose transcription failed (empty
\* content).
TeacherDocuments ==
    {<<>>} \cup
    UNION {{ [k \in 1..n |->
                [page_no |-> k,
                 content |-> Run(KeyChar(k), IF k % 2 = 0 THEN PromptLimit + 500
                                             ELSE 3)]],
             [k \in 1..n |->
                [page_no |-> k,
                 content |-> IF k = 1 THEN EmptyText
                             ELSE Run(KeyChar(k), 3)]] }
           : n \in 1..MaxPages}

\* student_data["pages"]: n pages, all but the first longer than the prompt
\* limit; or n pages of short text with a first page of whitespace only.
StudentDocuments ==
    {<<>>} \cup
    UNION {{ [k \in 1..n |->
                [page_no |-> k,
                 content |-> Run(ScriptChar(k), IF k >= 2 THEN PromptLimit + 1
                                                ELSE 2)]],
             [k \in 1..n |->
                [page_no |-> k,
                 content |-> IF k = 1 THEN Run(" ", 2)
                             ELSE Run(ScriptChar(k), 2)]] }
           : n \in 1..MaxPages}

\* response.text of the grading model, with what split('\n') and the
\* startswith tests make of it.  A SCORE line: numeric says whether float()
\* accepts the value, number is that value; an ANALYSIS line: rest is the
\* text after the colon, stripped.
ScoreLine(v) == [tag |-> "SCORE", numeric |-> TRUE, number |-> v, rest |-> ""]
BadScoreLine == [tag |-> "SCORE", numeric |-> FALSE, number |-> 0, rest |-> ""]
AnalysisLine(a) == [tag |-> "ANALYSIS", numeric |-> FALSE, number |-> 0, rest |-> a]
OtherLine == [tag |-> "OTHER", numeric |-> FALSE, number |-> 0, rest |-> ""]

GradingResponses ==
    { [text |-> "SCORE: 80 / ANALYSIS: Good",
       lines |-> <<ScoreLine(80), AnalysisLine("Good")>>],
      [text |-> "SCORE: 150",
       lines |-> <<ScoreLine(150)>>],
      [text |-> "SCORE: -20 / ANALYSIS:",
       lines |-> <<ScoreLine(-20), AnalysisLine("")>>],
      [text |-> "SCORE: eighty / ANALYSIS: ok",
       lines |-> <<BadScoreLine, AnalysisLine("ok")>>],
      [text |-> "The answers match.",
       lines |-> <<OtherLine>>] }

\* The classes of exception text: rate-limit class ("429", "rate", "quota"
\* in the lowered message) and every other exception.
ErrorKinds == {"rate_limit", "other"}

\* cosine_similarity of the two embeddings, in hundredths.
CosineValues == {-30, 45, 100}

\* max(0.0, min(1.0, x))
Clamp01_Identity(x) == x
Clamp01(x) == Max(0, Min(100, x))

RECURSIVE Pow2(_)
Pow2(k) == IF k <= 0 THEN 1 ELSE 2 * Pow2(k - 1)

\* wait_time = (2 ** attempt) * 2
BackoffSeconds_Linear(a) == (a + 1) * 2
BackoffSeconds(a) == Pow2(a) * 2

\* compare_with_sentence_transformers, cosine being what the local model
\* and cosine_similarity give for the two texts.
CompareWithSentenceTransformers(text1, text2, cosine) ==
    IF IsBlank(text1) \/ IsBlank(text2) THEN 0 ELSE Clamp01(cosine)

\* The for-loop over response_text.split('\n'); a non-numeric SCORE value
\* sets score = 0.5.
RECURSIVE ParseLines_ZeroOnBadScore(_, _, _)
ParseLines_ZeroOnBadScore(lines, score, analysis) ==
    IF lines = <<>> THEN [score |-> score, analysis |-> analysis]
    ELSE LET l == Head(lines)
         IN IF l.tag = "SCORE"
            THEN ParseLines_ZeroOnBadScore(Tail(lines),
                     IF l.numeric THEN l.number ELSE 0, analysis)
            ELSE IF l.tag = "ANALYSIS"
            THEN ParseLines_ZeroOnBadScore(Tail(lines), score, l.rest)
            ELSE ParseLines_ZeroOnBadScore(Tail(lines), score, analysis)
RECURSIVE ParseLines(_, _, _)
ParseLines(lines, score, analysis) ==
    IF lines = <<>> THEN [score |-> score, analysis |-> analysis]
    ELSE LET l == Head(lines)
         IN IF l.tag = "SCORE"
            THEN ParseLines(Tail(lines),
                            IF l.numeric THEN l.number ELSE 50, analysis)
            ELSE IF l.tag = "ANALYSIS"
            THEN ParseLines(Tail(lines), score, l.rest)
            ELSE ParseLines(Tail(lines), score, analysis)

\* What compare_with_gemini returns for a response.
ParsedResult(response) ==
    LET p == ParseLines(response.lines, 0, "")
    IN [similarity |-> Clamp01(p.score),
        analysis |-> IF p.analysis # "" THEN p.analysis ELSE response.text]

\* What compare_with_gemini returns on its last attempt's exception.
FallbackResult_NoAnalysis(kind, text1, text2, cosine) ==
    [similarity |-> CompareWithSentenceTransformers(text1, text2, cosine),
     analysis |-> ""]
FallbackResult(kind, text1, text2, cosine) ==
    [similarity |-> CompareWithSentenceTransformers(text1, text2, cosine),
     analysis |-> IF kind = "rate_limit"
                  THEN "Gemini API rate limited, used fallback. Score:"
                  ELSE "Gemini API error, used fallback. Score:"]

\* compare_texts with the local method.
LocalResult(text1, text2, cosine) ==
    [similarity |-> CompareWithSentenceTransformers(text1, text2, cosine),
     analysis |-> "Semantic similarity:"]

\* compare_page_async: teacher_page.get("content") or ""
TeacherContent_AllPages(i) ==
    LET RECURSIVE Join(_)
        Join(k) == IF k = 0 THEN EmptyText
                   ELSE Concat(Join(k - 1), teacher_pages[k].content)
    IN Join(Len(teacher_pages))
TeacherContent(i) == teacher_pages[i].content
StudentContent(i) == student_pages[i].content

\* The prompt's two texts.
GradingRequest(i) ==
    [task |-> i,
     key |-> Slice(TeacherContent(i), PromptLimit),
     student |-> Slice(StudentContent(i), PromptLimit)]

\* compare_page_async adds the page numbers to the result.
PageResult(i, r) ==
    [similarity |-> r.similarity,
     analysis |-> r.analysis,
     teacher_page_no |-> teacher_pages[i].page_no,
     student_page_no |-> student_pages[i].page_no]

Tasks == 1..Len(task_pc)
\* The class of the exception task i handled last.
LastError(i) == error_msgs[i][Len(error_msgs[i])]
Busy == {j \in Tasks : task_pc[j] \in {"calling", "sleeping"}}

\* compare_documents up to asyncio.gather: one task per matched page pair.
StartCompare ==
    /\ cmp_pc = "start"
    /\ LET min_pages == Min(Len(teacher_pages), Len(student_pages))
       IN /\ task_pc' = [i \in 1..min_pages |-> "queued"]
          /\ attempt' = [i \in 1..min_pages |-> 0]
          /\ grading_calls' = [i \in 1..min_pages |-> 0]
          /\ wait_time' = [i \in 1..min_pages |-> 0]
          /\ error_msgs' = [i \in 1..min_pages |-> <<>>]
          /\ received' = [i \in 1..min_pages |-> None]
          /\ task_result' = [i \in 1..min_pages |-> None]
    /\ cmp_pc' = "gather"
    /\ UNCHANGED <<method, teacher_pages, student_pages, requests, results>>

\* RunTask for an executor that starts every submitted task at once.
RunTask_Unbounded(i) ==
    /\ cmp_pc = "gather"
    /\ task_pc[i] = "queued"
    /\ \A j \in 1..(i - 1) : task_pc[j] # "queued"
    /\ IF IsBlank(TeacherContent(i)) \/ IsBlank(StudentContent(i))
       THEN /\ task_result' = [task_result EXCEPT ![i] =
                   PageResult(i, [similarity |-> 0,
                                  analysis |-> "Empty content"])]
            /\ task_pc' = [task_pc EXCEPT ![i] = "done"]
            /\ UNCHANGED <<grading_calls, requests>>
       ELSE /\ requests' = requests \cup {GradingRequest(i)}
            /\ grading_calls' = [grading_calls EXCEPT ![i] = 1]
            /\ task_pc' = [task_pc EXCEPT ![i] = "calling"]
            /\ UNCHANGED task_result
    /\ UNCHANGED <<method, teacher_pages, student_pages, cmp_pc, attempt,
                   wait_time, error_msgs, received, results>>

\* A pool worker takes task i (submitted in page order) and runs
\* compare_texts up to the first grading call, or to the end when no call
\* is made.
RunTask(i) ==
    /\ cmp_pc = "gather"
    /\ task_pc[i] = "queued"
    /\ \A j \in 1..(i - 1) : task_pc[j] # "queued"
    /\ Cardinality(Busy) < MaxWorkers
    /\ IF method = "gemini"
       THEN IF IsBlank(TeacherContent(i)) \/ IsBlank(StudentContent(i))
            THEN /\ task_result' = [task_result EXCEPT ![i] =
                        PageResult(i, [similarity |-> 0,
                                       analysis |-> "Empty content"])]
                 /\ task_pc' = [task_pc EXCEPT ![i] = "done"]
                 /\ UNCHANGED <<grading_calls, requests>>
            ELSE /\ requests' = requests \cup {GradingRequest(i)}
                 /\ grading_calls' = [grading_calls EXCEPT ![i] = 1]
                 /\ task_pc' = [task_pc EXCEPT ![i] = "calling"]
                 /\ UNCHANGED task_result
       ELSE /\ \E cosine \in CosineValues :
                 task_result' = [task_result EXCEPT ![i] =
                     PageResult(i, LocalResult(TeacherContent(i),
                                               StudentContent(i), cosine))]
            /\ task_pc' = [task_pc EXCEPT ![i] = "done"]
            /\ UNCHANGED <<grading_calls, requests>>
    /\ UNCHANGED <<method, teacher_pages, student_pages, cmp_pc, attempt,
                   wait_time, error_msgs, received, results>>

\* generate_content returns one of responses: it is parsed and returned.
GradingReturnsWith(i, responses) ==
    /\ task_pc[i] = "calling"
    /\ \E response \in responses :
          /\ received' = [received EXCEPT ![i] = response]
          /\ task_result' = [task_result EXCEPT ![i] =
                 PageResult(i, ParsedResult(response))]
    /\ task_pc' = [task_pc EXCEPT ![i] = "done"]
    /\ UNCHANGED <<method, teacher_pages, student_pages, cmp_pc, attempt,
                   grading_calls, wait_time, error_msgs, requests, results>>
GradingReturns(i) == GradingReturnsWith(i, GradingResponses)

\* GradingRaisesWith for a gather that, on the first failed call, cancels
\* the page comparisons still running or queued.
GradingRaisesWith_CancelsSiblings(i, kinds, cosines) ==
    /\ task_pc[i] = "calling"
    /\ \E kind \in kinds :
          error_msgs' = [error_msgs EXCEPT ![i] = Append(@, kind)]
    /\ \E cosine \in cosines :
          task_result' = [task_result EXCEPT ![i] =
              PageResult(i, FallbackResult(LastError(i)', TeacherContent(i),
                                StudentContent(i), cosine))]
    /\ task_pc' = [j \in Tasks |-> "done"]
    /\ UNCHANGED <<method, teacher_pages, student_pages, cmp_pc, attempt,
                   grading_calls, wait_time, received, requests, results>>

\* generate_content (or response.text) raises an exception of one of kinds:
\* the except branch up to its time.sleep, or to the fallback's return, the
\* local model giving one of cosines.
GradingRaisesWith(i, kinds, cosines) ==
    /\ task_pc[i] = "calling"
    /\ \E kind \in kinds :
          /\ error_msgs' = [error_msgs EXCEPT ![i] = Append(@, kind)]
          /\ IF kind = "rate_limit"
             THEN /\ wait_time' = [wait_time EXCEPT ![i] =
                                       BackoffSeconds(attempt[i])]
                  /\ task_pc' = [task_pc EXCEPT ![i] = "sleeping"]
                  /\ UNCHANGED task_result
             ELSE IF attempt[i] = RetryCount - 1
             THEN /\ \E cosine \in cosines :
                       task_result' = [task_result EXCEPT ![i] =
                           PageResult(i, FallbackResult(kind, TeacherContent(i),
                                             StudentContent(i), cosine))]
                  /\ task_pc' = [task_pc EXCEPT ![i] = "done"]
                  /\ UNCHANGED wait_time
             ELSE /\ wait_time' = [wait_time EXCEPT ![i] = 1]
                  /\ task_pc' = [task_pc EXCEPT ![i] = "sleeping"]
                  /\ UNCHANGED task_result
    /\ UNCHANGED <<method, teacher_pages, student_pages, cmp_pc, attempt,
                   grading_calls, received, requests, results>>
GradingRaises(i) == GradingRaisesWith(i, ErrorKinds, CosineValues)

\* time.sleep returns: the fallback after the last rate-limited attempt,
\* the next attempt's call otherwise.
WakeUpWith(i, cosines) ==
    /\ task_pc[i] = "sleeping"
    /\ wait_time' = [wait_time EXCEPT ![i] = 0]
    /\ IF LastError(i) = "rate_limit" /\ attempt[i] = RetryCount - 1
       THEN /\ \E cosine \in cosines :
                 task_result' = [task_result EXCEPT ![i] =
                     PageResult(i, FallbackResult(LastError(i),
                         TeacherContent(i), StudentContent(i), cosine))]
            /\ task_pc' = [task_pc EXCEPT ![i] = "done"]
            /\ UNCHANGED <<attempt, grading_calls, requests>>
       ELSE /\ attempt' = [attempt EXCEPT ![i] = attempt[i] + 1]
            /\ grading_calls' = [grading_calls EXCEPT ![i] = grading_calls[i] + 1]
            /\ requests' = requests \cup {GradingRequest(i)}
            /\ task_pc' = [task_pc EXCEPT ![i] = "calling"]
            /\ UNCHANGED task_result
    /\ UNCHANGED <<method, teacher_pages, student_pages, cmp_pc, error_msgs,
                   received, results>>
WakeUp(i) == WakeUpWith(i, CosineValues)

\* The records, in task order, of the tasks 1..k that had a failed call
\* (failed) or had none (~failed).
RECURSIVE RecordsWhere(_, _)
RecordsWhere(k, failed) ==
    IF k = 0 THEN <<>>
    ELSE RecordsWhere(k - 1, failed)
         \o (IF (error_msgs[k] # <<>>) = failed THEN <<task_result[k]>>
             ELSE <<>>)

\* Gather for a collection in order of completion (asyncio.as_completed):
\* the tasks that needed no retry first.
Gather_AsCompleted ==
    /\ cmp_pc = "gather"
    /\ \A i \in Tasks : task_pc[i] = "done"
    /\ results' = RecordsWhere(Len(task_pc), FALSE)
                      \o RecordsWhere(Len(task_pc), TRUE)
    /\ cmp_pc' = "done"
    /\ UNCHANGED <<method, teacher_pages, student_pages, task_pc, attempt,
                   grading_calls, wait_time, error_msgs, received, requests,
                   task_result>>

\* asyncio.gather returns the tasks' results in task order.
Gather ==
    /\ cmp_pc = "gather"
    /\ \A i \in Tasks : task_pc[i] = "done"
    /\ results' = task_result
    /\ cmp_pc' = "done"
    /\ UNCHANGED <<method, teacher_pages, student_pages, task_pc, attempt,
                   grading_calls, wait_time, error_msgs, received, requests,
                   task_result>>

\* SemanticComparator(method) and the two documents handed to
\* compare_documents.
InitCompare ==
    /\ method \in {"gemini", "sentence_transformers"}
    /\ teacher_pages \in TeacherDocuments
    /\ student_pages \in StudentDocuments
    /\ cmp_pc = "start"
    /\ task_pc = <<>>
    /\ attempt = <<>>
    /\ grading_calls = <<>>
    /\ wait_time = <<>>
    /\ error_msgs = <<>>
    /\ received = <<>>
    /\ requests = {}
    /\ task_result = <<>>
    /\ results = <<>>

\* A document of n pages of short text.
PoolDocument(c, n) == [k \in 1..n |-> [page_no |-> k, content |-> Run(c, 3)]]

(***************************************************************************)
(* evaluation.py                                                           *)
(***************************************************************************)
\* Most comparison records handed to evaluate_comparisons.
MaxRecords == 3

\* round(num / den, 0) for den > 0: to the nearest integer, ties to even.
RoundHalfEven(num, den) ==
    LET q == num \div den
        r == num % den
    IN IF 2 * r < den THEN q
       ELSE IF 2 * r > den THEN q + 1
       ELSE IF q % 2 = 0 THEN q ELSE q + 1

\* The scoring curve of calculate_page_score, in hundredths.
ScoreMultiplier(similarity) ==
    IF similarity >= 90 THEN 100
    ELSE IF similarity >= 80 THEN 95
    ELSE IF similarity >= 70 THEN 85
    ELSE IF similarity >= 60 THEN 75
    ELSE IF similarity >= 50 THEN 65
    ELSE IF similarity >= 40 THEN 50
    ELSE IF similarity >= 30 THEN 35
    ELSE similarity

\* calculate_page_score(similarity, marks / pages): round(.., 2), in
\* hundredths of a mark.
CalculatePageScore_Linear(similarity, marks, pages) ==
    RoundHalfEven(marks * similarity, pages)
CalculatePageScore(similarity, marks, pages) ==
    RoundHalfEven(marks * ScoreMultiplier(similarity), pages)

\* calculate_grade of the percentage num / den, den > 0.
CalculateGrade_Exclusive(num, den) ==
    IF num > 90 * den THEN "A+"
    ELSE IF num > 85 * den THEN "A"
    ELSE IF num > 80 * den THEN "A-"
    ELSE IF num > 75 * den THEN "B+"
    ELSE IF num > 70 * den THEN "B"
    ELSE IF num > 65 * den THEN "B-"
    ELSE IF num > 60 * den THEN "C+"
    ELSE IF num > 55 * den THEN "C"
    ELSE IF num > 50 * den THEN "C-"
    ELSE IF num > 45 * den THEN "D+"
    ELSE IF num > 40 * den THEN "D"
    ELSE "F"
CalculateGrade(num, den) ==
    IF num >= 90 * den THEN "A+"
    ELSE IF num >= 85 * den THEN "A"
    ELSE IF num >= 80 * den THEN "A-"
    ELSE IF num >= 75 * den THEN "B+"
    ELSE IF num >= 70 * den THEN "B"
    ELSE IF num >= 65 * den THEN "B-"
    ELSE IF num >= 60 * den THEN "C+"
    ELSE IF num >= 55 * den THEN "C"
    ELSE IF num >= 50 * den THEN "C-"
    ELSE IF num >= 45 * den THEN "D+"
    ELSE IF num >= 40 * den THEN "D"
    ELSE "F"

\* The page_info of record i.
PageInfo(records, i, marks) ==
    [page_no |-> records[i].student_page_no,
     similarity_score |-> records[i].similarity * 100,
     marks_awarded |-> CalculatePageScore(records[i].similarity, marks,
                                          Len(records)),
     max_marks |-> RoundHalfEven(100 * marks, Len(records)),
     analysis |-> records[i].analysis]

\* total_score += page_score, over the first k pages
RECURSIVE SumAwarded(_, _)
SumAwarded(page_scores, k) ==
    IF k = 0 THEN 0
    ELSE SumAwarded(page_scores, k - 1) + page_scores[k].marks_awarded

\* total_similarity += similarity, over the first k records
RECURSIVE SumSimilarity(_, _)
SumSimilarity(records, k) ==
    IF k = 0 THEN 0 ELSE SumSimilarity(records, k - 1) + records[k].similarity

\* The marks_possible a record carries, 0 when it carries none.
MarksPossible(rec) ==
    IF "marks_possible" \in DOMAIN rec THEN rec.marks_possible ELSE 0
RECURSIVE SumPossible(_, _)
SumPossible(records, k) ==
    IF k = 0 THEN 0 ELSE SumPossible(records, k - 1) + MarksPossible(records[k])

\* "max_score" of the report, in hundredths of a mark.
ReportMaxScore_DynamicTotal(records, marks) ==
    LET total == SumPossible(records, Len(records))
    IN IF total > 0 THEN 100 * total ELSE 100 * marks
ReportMaxScore(records, marks) == 100 * marks

\* The report of evaluate_comparisons when it returns one: the empty list,
\* or total_marks # 0.
EvaluationOf(records, marks, threshold) ==
    IF records = <<>>
    THEN [total_score |-> 0,
          max_score |-> ReportMaxScore(records, marks),
          percentage |-> 0,
          status |-> "fail",
          grade |-> "F",
          page_scores |-> <<>>,
          average_similarity |-> 0,
          total_pages_evaluated |-> 0]
    ELSE LET page_scores == [i \in 1..Len(records) |->
                                 PageInfo(records, i, marks)]
             total_score == SumAwarded(page_scores, Len(page_scores))
             total_similarity == SumSimilarity(records, Len(records))
             \* percentage = total_score / total_marks * 100 is the
             \* fraction total_score (in hundredths) / marks
         IN [total_score |-> total_score,
             max_score |-> ReportMaxScore(records, marks),
             percentage |-> RoundHalfEven(100 * total_score, marks),
             average_similarity |->
                 RoundHalfEven(100 * total_similarity, Len(records)),
             status |-> IF total_score >= threshold * marks
                        THEN "pass" ELSE "fail",
             grade |-> CalculateGrade(total_score, marks),
             page_scores |-> page_scores,
             total_pages_evaluated |-> Len(records)]

\* Most calls made on one Evaluator with one list of records.
MaxCalls == 2

\* evaluate_comparisons(comparison_results): the division by total_marks
\* raises ZeroDivisionError for a non-empty list when total_marks is 0.
EvaluateComparisons_ConsumesRecords ==
    /\ ev_pc \in {"ready", "returned"}
    /\ Len(ev_returns) < MaxCalls
    /\ IF comparison_results # <<>> /\ total_marks = 0
       THEN /\ ev_pc' = "raised"
            /\ UNCHANGED <<evaluation, ev_returns, comparison_results>>
       ELSE /\ ev_pc' = "returned"
            /\ evaluation' = EvaluationOf(comparison_results, total_marks,
                                          pass_threshold)
            /\ ev_returns' = Append(ev_returns,
                   [fn |-> "evaluate_comparisons", value |-> evaluation'])
            /\ comparison_results' = <<>>
    /\ UNCHANGED <<total_marks, pass_threshold, grades>>
EvaluateComparisons ==
    /\ ev_pc \in {"ready", "returned"}
    /\ Len(ev_returns) < MaxCalls
    /\ IF comparison_results # <<>> /\ total_marks = 0
       THEN /\ ev_pc' = "raised"
            /\ UNCHANGED <<evaluation, ev_returns>>
       ELSE /\ ev_pc' = "returned"
            /\ evaluation' = EvaluationOf(comparison_results, total_marks,
                                          pass_threshold)
            /\ ev_returns' = Append(ev_returns,
                   [fn |-> "evaluate_comparisons", value |-> evaluation'])
    /\ UNCHANGED <<total_marks, pass_threshold, comparison_results, grades>>

\* datetime.now().isoformat() at the moment of a call.
Dates == {"t1", "t2"}

\* The dictionary generate_evaluation_report builds around an evaluation.
ReportOf(ev, date, teacher_file, student_file) ==
    [metadata |-> [evaluation_date |-> date,
                   teacher_file |-> teacher_file,
                   student_file |-> student_file,
                   student_info |-> <<>>],
     evaluation |-> ev,
     detailed_page_analysis |-> ev.page_scores]

\* generate_evaluation_report(comparison_results, teacher_file, student_file)
\* as evaluation_phase calls it: an exception of evaluate_comparisons
\* propagates.
GenerateEvaluationReport ==
    /\ ev_pc \in {"ready", "returned"}
    /\ Len(ev_returns) < MaxCalls
    /\ IF comparison_results # <<>> /\ total_marks = 0
       THEN /\ ev_pc' = "raised"
            /\ UNCHANGED <<evaluation, ev_returns>>
       ELSE /\ ev_pc' = "returned"
            /\ evaluation' = EvaluationOf(comparison_results, total_marks,
                                          pass_threshold)
            /\ \E date \in Dates :
                  ev_returns' = Append(ev_returns,
                      [fn |-> "generate_evaluation_report",
                       value |-> ReportOf(evaluation', date,
                                          "teacher.pdf", "student.pdf")])
    /\ UNCHANGED <<total_marks, pass_threshold, comparison_results, grades>>

\* Similarities of the records, in hundredths.
SimilarityValues == {0, 25, 55, 85, 95}
\* Evaluator(total_marks, pass_threshold)
TotalMarksValues == {0, 5, 10, 100, 1000}
PassThresholds == {40, 75}

\* The lists of n records as compare_documents returns them, and the same
\* lists with each record also carrying marks_possible (2, 3, 4, ..).
RecordLists(n) ==
    LET sims == [1..n -> SimilarityValues]
    IN {[i \in 1..n |-> [similarity |-> f[i], analysis |-> "analysis",
                         teacher_page_no |-> i, student_page_no |-> i]]
           : f \in sims}
       \cup
       {[i \in 1..n |-> [similarity |-> f[i], analysis |-> "analysis",
                         teacher_page_no |-> i, student_page_no |-> i,
                         marks_possible |-> i + 1]]
           : f \in sims}

\* Two records of fragments that earned 2 of 2 and 2 of 3 marks, their
\* similarities being 1.0 and 0.67.
ExampleRecords ==
    << [similarity |-> 100, analysis |-> "analysis", teacher_page_no |-> 1,
        student_page_no |-> 1, marks_earned |-> 2, marks_possible |-> 2],
       [similarity |-> 67, analysis |-> "analysis", teacher_page_no |-> 2,
        student_page_no |-> 2, marks_earned |-> 2, marks_possible |-> 3] >>

InitEval ==
    /\ total_marks \in TotalMarksValues
    /\ pass_threshold \in PassThresholds
    /\ comparison_results \in
          UNION {RecordLists(n) : n \in 0..MaxRecords} \cup {ExampleRecords}
    /\ ev_pc = "ready"
    /\ evaluation = None
    /\ ev_returns = <<>>
    /\ grades = <<>>

\* Most calculate_grade calls of one run.
MaxGradeCalls == 2

\* The percentages handed to calculate_grade, in hundredths of a percent:
\* 0, 41, 92, 100 and every threshold of the table, each with the values one
\* hundredth below and above it.
GradePercentages ==
    {100 * t + d : t \in {0, 40, 41, 45, 50, 55, 60, 65, 70, 75, 80, 85, 90,
                          92, 100},
                   d \in {-1, 0, 1}} \ {-1}

\* calculate_grade(percentage)
CalculateGradeCall ==
    /\ Len(grades) < MaxGradeCalls
    /\ \E p \in GradePercentages :
          grades' = Append(grades,
                           [percentage |-> p, grade |-> CalculateGrade(p, 100)])
    /\ UNCHANGED <<total_marks, pass_threshold, comparison_results, ev_pc,
                   evaluation, ev_returns>>

(***************************************************************************)
(* feedback.py                                                             *)
(***************************************************************************)
\* teacher_content[:1000], student_content[:1000] in the feedback prompt
FeedbackPromptLimit == 1000

\* Most generate_complete_feedback calls made on one FeedbackGenerator.
MaxFeedbackCalls == 2

\* What generate_content does for a feedback prompt: it returns a response
\* with one of these texts, or raises.
FeedbackOutcomes == {"Well argued.", "raise"}

\* The opening of _generate_template_feedback for a similarity percentage
\* (in hundredths of a percent).
TemplateHeading(similarity) ==
    IF similarity >= 9000 THEN "Excellent work!"
    ELSE IF similarity >= 8000 THEN "Very good!"
    ELSE IF similarity >= 7000 THEN "Good attempt."
    ELSE IF similarity >= 6000 THEN "Satisfactory."
    ELSE IF similarity >= 5000 THEN "Needs improvement."
    ELSE IF similarity >= 4000 THEN "Below expectations."
    ELSE "Significant gaps."

\* _generate_template_feedback: the page heading, the opening and
\* "You earned {marks_awarded}/{max_marks} marks."
TemplateFeedback(page_score) ==
    [page_no |-> page_score.page_no,
     source |-> "template",
     body |-> TemplateHeading(page_score.similarity_score),
     earned |-> <<page_score.marks_awarded, page_score.max_marks>>]

\* _generate_ai_feedback when the call returned: the page heading and
\* response.text.
AiFeedback(page_score, response_text) ==
    [page_no |-> page_score.page_no,
     source |-> "ai",
     body |-> response_text,
     earned |-> <<>>]

\* The prompt of _generate_ai_feedback.
FeedbackPrompt(page_score, teacher_content, student_content) ==
    [page_no |-> page_score.page_no,
     similarity |-> page_score.similarity_score,
     marks_awarded |-> page_score.marks_awarded,
     max_marks |-> page_score.max_marks,
     teacher |-> Slice(teacher_content, FeedbackPromptLimit),
     student |-> Slice(student_content, FeedbackPromptLimit)]

\* status.upper()
Upper(status) ==
    CASE status = "pass" -> "PASS"
      [] status = "fail" -> "FAIL"
      [] OTHER -> "UNKNOWN"

\* The opening of generate_overall_feedback for a percentage (in
\* hundredths of a percent).
OverallHeading(percentage) ==
    IF percentage >= 8500 THEN "Outstanding Performance!"
    ELSE IF percentage >= 7000 THEN "Good Performance!"
    ELSE IF percentage >= 5500 THEN "Satisfactory Performance."
    ELSE IF percentage >= 4000 THEN "Marginal Performance."
    ELSE "Needs Significant Improvement."

\* The consistency note: max(scores) - min(scores) over the pages.
ConsistencyNote(page_scores) ==
    IF Len(page_scores) <= 1 THEN ""
    ELSE LET scores == {page_scores[i].similarity_score :
                            i \in 1..Len(page_scores)}
             hi == CHOOSE x \in scores : \A y \in scores : y <= x
             lo == CHOOSE x \in scores : \A y \in scores : x <= y
         IN IF hi - lo > 3000 THEN "varies significantly"
            ELSE IF hi - lo < 1000 THEN "consistent"
            ELSE ""

\* generate_overall_feedback
OverallFeedback_Defaults(ev) ==
    [body |-> OverallHeading(0),
     grade |-> "N/A",
     status |-> "UNKNOWN",
     total_score |-> ev.total_score,
     max_score |-> ev.max_score,
     average_similarity |-> 0,
     note |-> ConsistencyNote(ev.page_scores)]
OverallFeedback(ev) ==
    [body |-> OverallHeading(ev.percentage),
     grade |-> ev.grade,
     status |-> Upper(ev.status),
     total_score |-> ev.total_score,
     max_score |-> ev.max_score,
     average_similarity |-> ev.average_similarity,
     note |-> ConsistencyNote(ev.page_scores)]

\* generate_complete_feedback's teacher_content / student_content of the
\* page at enumerate index i - 1: "" unless both documents are given and
\* both have that page.
PageContent(data, other, i) ==
    IF data # None /\ other # None
       /\ i <= Len(data.pages) /\ i <= Len(other.pages)
    THEN data.pages[i].content
    ELSE EmptyText

\* generate_page_feedback takes the AI branch.
UsesAi_Always(teacher_content, student_content) == use_ai /\ gemini_model
UsesAi(teacher_content, student_content) ==
    /\ use_ai /\ gemini_model
    /\ teacher_content # EmptyText /\ student_content # EmptyText

\* generate_complete_feedback(evaluation, teacher_data, student_data): per
\* page the template, or the prompt sent and the response or, when the
\* call raised, the template; then the overall feedback.
GenerateCompleteFeedback(ev, teacher_data, student_data) ==
    LET n == Len(ev.page_scores)
        tc(i) == PageContent(teacher_data, student_data, i)
        sc(i) == PageContent(student_data, teacher_data, i)
        ai == {i \in 1..n : UsesAi(tc(i), sc(i))}
    IN \E outcome \in [ai -> FeedbackOutcomes] :
          LET text ==
                [pages |-> [i \in 1..n |->
                     IF i \in ai /\ outcome[i] # "raise"
                     THEN AiFeedback(ev.page_scores[i], outcome[i])
                     ELSE TemplateFeedback(ev.page_scores[i])],
                 overall |-> OverallFeedback(ev)]
          IN /\ fb_requests' = fb_requests \cup
                    {FeedbackPrompt(ev.page_scores[i], tc(i), sc(i)) : i \in ai}
             /\ fb_log' = Append(fb_log,
                    [evaluation |-> ev, teacher_data |-> teacher_data,
                     student_data |-> student_data, text |-> text])
             /\ UNCHANGED <<use_ai, gemini_model>>

\* The evaluations handed to generate_complete_feedback: no page, one page,
\* two pages.
FeedbackEvaluations ==
    { EvaluationOf(<<>>, 100, 40),
      EvaluationOf(CHOOSE l \in RecordLists(1) :
                      l[1].similarity = 85 /\ "marks_possible" \notin DOMAIN l[1],
                   100, 40),
      EvaluationOf(CHOOSE l \in RecordLists(2) :
                      /\ l[1].similarity = 95 /\ l[2].similarity = 25
                      /\ "marks_possible" \notin DOMAIN l[1],
                   100, 40) }

\* The teacher_data / student_data of a call: not given, or a document.
FeedbackTeacherData == {None, [pages |-> PoolDocument("k", 2)]}
FeedbackStudentData == {None, [pages |-> PoolDocument("s", 1)]}

GenerateCompleteFeedbackCall ==
    /\ Len(fb_log) < MaxFeedbackCalls
    /\ \E ev \in FeedbackEvaluations, teacher_data \in FeedbackTeacherData,
          student_data \in FeedbackStudentData :
          GenerateCompleteFeedback(ev, teacher_data, student_data)

\* FeedbackGenerator(use_ai): the model is set when use_ai and a key is
\* found.
InitFeedback ==
    /\ use_ai \in BOOLEAN
    /\ gemini_model \in {b \in BOOLEAN : b => use_ai}
    /\ fb_requests = {}
    /\ fb_log = <<>>

FeedbackIdle ==
    /\ use_ai = FALSE
    /\ gemini_model = FALSE
    /\ fb_requests = {}
    /\ fb_log = <<>>

(***************************************************************************)
(* pipeline.py                                                             *)
(***************************************************************************)
\* GEMINI_API_KEY: unset or empty, shorter than 20 characters, not starting
\* with "AIza", or of the expected format.
ApiKeys == {"missing", "short", "bad_prefix", "valid"}

\* verify_gemini_api_key
VerifyGeminiApiKey(key) == key = "valid"

\* The inputs the run draws in its phases: one well-formed transcription,
\* one well-formed grading response, both classes of error, two cosines.
PipelineTranscriptions == {r \in TranscriptionResponses : r.conf = 90}
PipelineGradings == {r \in GradingResponses : r.text = "SCORE: 80 / ANALYSIS: Good"}
PipelineCosines == {-30, 45}

\* run_correction_pipeline: CorrectionPipeline.__init__.  DocumentExtractor()
\* raises ValueError when the key is unset or empty; FeedbackGenerator(
\* use_ai=use_ai_feedback) sets its model when use_ai.
Construct ==
    /\ run_pc = "construct"
    /\ IF api_key = "missing"
       THEN /\ run_pc' = "raised"
            /\ run_error' = "ValueError"
            /\ UNCHANGED gemini_model
       ELSE /\ run_pc' = "check"
            /\ gemini_model' = use_ai
            /\ UNCHANGED run_error
    /\ UNCHANGED <<api_key, save_results, evaluation_report, feedback, saved>>
    /\ UNCHANGED <<use_ai, fb_requests, fb_log>>
    /\ UNCHANGED <<exVars, cmpVars, evVars>>

\* run_async up to the call of extract_documents: check_api_prerequisites,
\* ValueError when the key is not valid.
CheckPrerequisites_NoCheck ==
    /\ run_pc = "check"
    /\ run_pc' = "extract"
    /\ ex_pc' = "begin_file"
    /\ UNCHANGED run_error
    /\ UNCHANGED <<api_key, save_results, evaluation_report, feedback, saved>>
    /\ UNCHANGED <<docs, ex_doc, ex_page, rate_limit_lock, inflight,
                   calls_issued, pages_content, final_name, final_roll,
                   extracted, raised>>
    /\ UNCHANGED <<cmpVars, evVars>>
CheckPrerequisites ==
    /\ run_pc = "check"
    /\ IF VerifyGeminiApiKey(api_key)
       THEN /\ run_pc' = "extract"
            /\ ex_pc' = "begin_file"
            /\ UNCHANGED run_error
       ELSE /\ run_pc' = "raised"
            /\ run_error' = "ValueError"
            /\ UNCHANGED ex_pc
    /\ UNCHANGED <<api_key, save_results, evaluation_report, feedback, saved>>
    /\ UNCHANGED <<docs, ex_doc, ex_page, rate_limit_lock, inflight,
                   calls_issued, pages_content, final_name, final_roll,
                   extracted, raised>>
    /\ UNCHANGED <<cmpVars, evVars>>

\* extract_documents has returned: the rest of extract_phase, which reads
\* ['total_pages'] of both documents (KeyError on the record of a document
\* that could not be read), then comparison_phase up to compare_documents.
ExtractPhaseReturns_Streamed ==
    /\ run_pc = "extract"
    /\ Len(extracted) >= 1
    /\ "error" \notin DOMAIN extracted[1]
    /\ ex_pc \in {"gate", "sleep", "call"}
    /\ run_pc' = "compare"
    /\ teacher_pages' = extracted[1].pages
    /\ student_pages' = pages_content
    /\ cmp_pc' = "start"
    /\ UNCHANGED run_error
    /\ UNCHANGED <<api_key, save_results, evaluation_report, feedback, saved>>
    /\ UNCHANGED <<method, task_pc, attempt, grading_calls, wait_time,
                   error_msgs, received, requests, task_result, results>>
    /\ UNCHANGED <<exVars, evVars>>
ExtractPhaseReturns ==
    /\ run_pc = "extract"
    /\ ex_pc = "done"
    /\ IF \E d \in 1..Len(extracted) : "total_pages" \notin DOMAIN extracted[d]
       THEN /\ run_pc' = "raised"
            /\ run_error' = "KeyError"
            /\ UNCHANGED <<teacher_pages, student_pages, cmp_pc>>
       ELSE /\ run_pc' = "compare"
            /\ teacher_pages' = extracted[1].pages
            /\ student_pages' = extracted[2].pages
            /\ cmp_pc' = "start"
            /\ UNCHANGED run_error
    /\ UNCHANGED <<api_key, save_results, evaluation_report, feedback, saved>>
    /\ UNCHANGED <<method, task_pc, attempt, grading_calls, wait_time,
                   error_msgs, received, requests, task_result, results>>
    /\ UNCHANGED <<exVars, evVars>>

\* compare_documents has returned: the rest of comparison_phase, then
\* evaluation_phase up to generate_evaluation_report.
ComparisonPhaseReturns ==
    /\ run_pc = "compare"
    /\ cmp_pc = "done"
    /\ run_pc' = "evaluate"
    /\ comparison_results' = results
    /\ ev_pc' = "ready"
    /\ UNCHANGED <<total_marks, pass_threshold, evaluation, ev_returns, grades>>
    /\ UNCHANGED <<api_key, save_results, evaluation_report, feedback, saved,
                   run_error>>
    /\ UNCHANGED <<exVars, cmpVars>>

\* evaluation_phase: generate_evaluation_report, whose exception ends the
\* run.
EvaluationPhase ==
    /\ run_pc = "evaluate"
    /\ GenerateEvaluationReport
    /\ IF ev_pc' = "raised"
       THEN /\ run_pc' = "raised"
            /\ run_error' = "ZeroDivisionError"
            /\ UNCHANGED evaluation_report
       ELSE /\ run_pc' = "feedback"
            /\ evaluation_report' = ev_returns'[Len(ev_returns')].value
            /\ UNCHANGED run_error
    /\ UNCHANGED <<api_key, save_results, feedback, saved>>
    /\ UNCHANGED <<exVars, cmpVars>>

\* feedback_phase: generate_complete_feedback on the report's evaluation
\* and the two extracted documents; then the final results are compiled.
FeedbackPhase ==
    /\ run_pc = "feedback"
    /\ GenerateCompleteFeedback(evaluation_report.evaluation,
                                extracted[1], extracted[2])
    /\ feedback' = fb_log'[Len(fb_log')].text
    /\ run_pc' = IF save_results THEN "save" ELSE "returned"
    /\ UNCHANGED <<api_key, save_results, evaluation_report, saved, run_error>>
    /\ UNCHANGED <<exVars, cmpVars, evVars>>

\* _save_results, then run_async returns final_results.
SaveResults ==
    /\ run_pc = "save"
    /\ saved' = {"evaluation_report.json", "feedback.txt",
                 "extracted_data.json", "summary.txt"}
    /\ run_pc' = "returned"
    /\ UNCHANGED <<api_key, save_results, evaluation_report, feedback, run_error>>
    /\ UNCHANGED <<exVars, cmpVars, evVars>>

PipelineIdle ==
    /\ run_pc = "idle"
    /\ api_key = "valid"
    /\ save_results = FALSE
    /\ evaluation_report = None
    /\ feedback = None
    /\ saved = {}
    /\ run_error = "none"

\* run_correction_pipeline(teacher_file_path, student_file_path) with the
\* default method and total_marks.
InitPipeline ==
    /\ run_pc = "construct"
    /\ api_key \in ApiKeys
    /\ save_results \in BOOLEAN
    /\ evaluation_report = None
    /\ feedback = None
    /\ saved = {}
    /\ run_error = "none"
    /\ use_ai \in BOOLEAN
    /\ gemini_model = FALSE
    /\ fb_requests = {}
    /\ fb_log = <<>>
    /\ \E t \in PdfFiles("teacher"), s \in PdfFiles("student") : docs = <<t, s>>
    /\ ex_pc = "idle"
    /\ ex_doc = 1
    /\ ex_page = 0
    /\ rate_limit_lock = 1
    /\ inflight = 0
    /\ calls_issued = 0
    /\ pages_content = <<>>
    /\ final_name = "Unknown"
    /\ final_roll = "Unknown"
    /\ extracted = <<>>
    /\ raised = {}

(***************************************************************************)
(* database.py                                                             *)
(***************************************************************************)
\* Most calls made on one ResultsDB.
MaxDbCalls == 4

\* A score argument of insert_result: a number, a numeric string, or a
\* string float() cannot convert.  value is float(argument) in hundredths.
ScoreArguments ==
    { [text |-> "", numeric |-> TRUE, value |-> 7000],
      [text |-> "75", numeric |-> TRUE, value |-> 7500],
      [text |-> "abc", numeric |-> FALSE, value |-> 0] }
TeacherScoreArguments ==
    { [text |-> "", numeric |-> TRUE, value |-> 7500],
      [text |-> "70", numeric |-> TRUE, value |-> 7000] }
MaxScoreArgument == [text |-> "", numeric |-> TRUE, value |-> 10000]

\* datetime.now() to the second: the wall clock, which two calls may read
\* within the same second and which may be set back between calls.
Timestamps == {1, 2}

\* The argument lists of insert_result.
InsertArguments ==
    [name : {"Asha"}, roll : {"42"}, subject : {"Physics"},
     ai_score : ScoreArguments, teacher_score : TeacherScoreArguments,
     max_m : {MaxScoreArgument}, grade : {"B"}]

\* float(x) raises ValueError on a string that is no number.
FloatRaises(args) ==
    ~args.ai_score.numeric \/ ~args.teacher_score.numeric \/ ~args.max_m.numeric

\* variance = teacher_val - ai_val
ScoreVariance_AiMinusTeacher(ai_val, teacher_val) == ai_val - teacher_val
ScoreVariance(ai_val, teacher_val) == teacher_val - ai_val

\* id INTEGER PRIMARY KEY AUTOINCREMENT: one more than the largest id the
\* table ever gave, deleted rows included.
NextId_MaxOfRows ==
    IF db_rows = {} THEN 1
    ELSE (CHOOSE r \in db_rows : \A q \in db_rows : q.id <= r.id).id + 1
NextId == db_seq + 1

\* The row the INSERT statement adds.
InsertedRow(args, timestamp) ==
    [id |-> NextId,
     student_name |-> args.name,
     roll_no |-> args.roll,
     subject |-> args.subject,
     ai_score |-> args.ai_score.value,
     teacher_score |-> args.teacher_score.value,
     score_variance |-> ScoreVariance(args.ai_score.value,
                                      args.teacher_score.value),
     max_score |-> args.max_m.value,
     grade |-> args.grade,
     timestamp |-> timestamp]

\* SELECT * FROM results ORDER BY id DESC
RECURSIVE OrderByTimestampDesc(_)
OrderByTimestampDesc(rows) ==
    IF rows = {} THEN <<>>
    ELSE LET first == CHOOSE r \in rows :
                         \A q \in rows : q.timestamp <= r.timestamp
         IN <<first>> \o OrderByTimestampDesc(rows \ {first})
RECURSIVE OrderByIdDesc(_)
OrderByIdDesc(rows) ==
    IF rows = {} THEN <<>>
    ELSE LET first == CHOOSE r \in rows : \A q \in rows : q.id <= r.id
         IN <<first>> \o OrderByIdDesc(rows \ {first})

\* One entry of db_log.
LogEntry(fn, args, didRaise, row, value) ==
    [fn |-> fn, args |-> args, raised |-> didRaise, row |-> row,
     value |-> value]

\* insert_result: ValueError before the INSERT when a float() fails.
InsertResult ==
    /\ Len(db_log) < MaxDbCalls
    /\ \E args \in InsertArguments, timestamp \in Timestamps :
          IF FloatRaises(args)
          THEN /\ db_log' = Append(db_log,
                      LogEntry("insert_result", args, TRUE, None, None))
               /\ UNCHANGED <<db_rows, db_seq>>
          ELSE LET row == InsertedRow(args, timestamp)
               IN /\ db_rows' = db_rows \cup {row}
                  /\ db_seq' = row.id
                  /\ db_log' = Append(db_log,
                         LogEntry("insert_result", args, FALSE, row, None))

\* get_all_results_df
GetAllResultsDf ==
    /\ Len(db_log) < MaxDbCalls
    /\ db_log' = Append(db_log,
           LogEntry("get_all_results_df", None, FALSE, None,
                    OrderByIdDesc(db_rows)))
    /\ UNCHANGED <<db_rows, db_seq>>

\* clear_database: DELETE FROM results
ClearDatabase ==
    /\ Len(db_log) < MaxDbCalls
    /\ db_rows' = {}
    /\ db_log' = Append(db_log,
           LogEntry("clear_database", None, FALSE, None, None))
    /\ UNCHANGED db_seq

\* ResultsDB(db_path) on a new file: _create_table.
InitDb ==
    /\ db_rows = {}
    /\ db_seq = 0
    /\ db_log = <<>>

DbIdle ==
    /\ db_rows = {}
    /\ db_seq = 0
    /\ db_log = <<>>

(***************************************************************************)
(* Specifications                                                          *)
(***************************************************************************)
CompareIdle ==
    /\ method = "gemini"
    /\ teacher_pages = <<>>
    /\ student_pages = <<>>
    /\ cmp_pc = "idle"
    /\ task_pc = <<>>
    /\ attempt = <<>>
    /\ grading_calls = <<>>
    /\ wait_time = <<>>
    /\ error_msgs = <<>>
    /\ received = <<>>
    /\ requests = {}
    /\ task_result = <<>>
    /\ results = <<>>

EvalIdle ==
    /\ total_marks = 100
    /\ pass_threshold = 40
    /\ comparison_results = <<>>
    /\ ev_pc = "idle"
    /\ evaluation = None
    /\ ev_returns = <<>>
    /\ grades = <<>>

InitExtractRun == InitExtract /\ CompareIdle /\ EvalIdle /\ PipelineIdle /\ DbIdle
    /\ FeedbackIdle

NextExtractRun ==
    \/ BeginFile /\ UNCHANGED <<cmpVars, evVars, plVars, dbVars, fbVars>>
    \/ AcquireGate /\ UNCHANGED <<cmpVars, evVars, plVars, dbVars, fbVars>>
    \/ Sleep /\ UNCHANGED <<cmpVars, evVars, plVars, dbVars, fbVars>>
    \/ IssueCall /\ UNCHANGED <<cmpVars, evVars, plVars, dbVars, fbVars>>
    \/ CallReturns /\ UNCHANGED <<cmpVars, evVars, plVars, dbVars, fbVars>>
    \/ CallRaises /\ UNCHANGED <<cmpVars, evVars, plVars, dbVars, fbVars>>

SpecExtract == InitExtractRun /\ [][NextExtractRun]_vars

\* extract_documents when the event loop keeps running: every sleep ends and
\* every external call returns or raises.
SpecExtractLive == SpecExtract /\ WF_vars(NextExtractRun)

InitCompareRun == ExtractIdle /\ InitCompare /\ EvalIdle /\ PipelineIdle /\ DbIdle
    /\ FeedbackIdle

NextCompareRun ==
    \/ StartCompare /\ UNCHANGED <<exVars, evVars, plVars, dbVars, fbVars>>
    \/ \E i \in Tasks : RunTask(i) /\ UNCHANGED <<exVars, evVars, plVars, dbVars, fbVars>>
    \/ \E i \in Tasks : GradingReturns(i) /\ UNCHANGED <<exVars, evVars, plVars, dbVars, fbVars>>
    \/ \E i \in Tasks : GradingRaises(i) /\ UNCHANGED <<exVars, evVars, plVars, dbVars, fbVars>>
    \/ \E i \in Tasks : WakeUp(i) /\ UNCHANGED <<exVars, evVars, plVars, dbVars, fbVars>>
    \/ Gather /\ UNCHANGED <<exVars, evVars, plVars, dbVars, fbVars>>

SpecCompare == InitCompareRun /\ [][NextCompareRun]_vars

InitEvalRun == ExtractIdle /\ CompareIdle /\ InitEval /\ PipelineIdle /\ DbIdle
    /\ FeedbackIdle

NextEvalRun ==
    \/ EvaluateComparisons /\ UNCHANGED <<exVars, cmpVars, plVars, dbVars, fbVars>>
    \/ GenerateEvaluationReport /\ UNCHANGED <<exVars, cmpVars, plVars, dbVars, fbVars>>

SpecEval == InitEvalRun /\ [][NextEvalRun]_vars

InitGradeRun == ExtractIdle /\ CompareIdle /\ EvalIdle /\ PipelineIdle /\ DbIdle
    /\ FeedbackIdle

NextGradeRun ==
    \/ CalculateGradeCall /\ UNCHANGED <<exVars, cmpVars, plVars, dbVars, fbVars>>

SpecGrade == InitGradeRun /\ [][NextGradeRun]_vars

\* compare_documents on documents of more pages than the pool has workers.
MaxPoolPages == 4

InitPool ==
    /\ method = "gemini"
    /\ \E n \in 1..MaxPoolPages : teacher_pages = PoolDocument("k", n)
    /\ \E n \in 1..MaxPoolPages : student_pages = PoolDocument("s", n)
    /\ cmp_pc = "start"
    /\ task_pc = <<>>
    /\ attempt = <<>>
    /\ grading_calls = <<>>
    /\ wait_time = <<>>
    /\ error_msgs = <<>>
    /\ received = <<>>
    /\ requests = {}
    /\ task_result = <<>>
    /\ results = <<>>

InitPoolRun == ExtractIdle /\ InitPool /\ EvalIdle /\ PipelineIdle /\ DbIdle
    /\ FeedbackIdle

NextPoolRun ==
    \/ StartCompare /\ UNCHANGED <<exVars, evVars, plVars, dbVars, fbVars>>
    \/ \E i \in Tasks : RunTask(i) /\ UNCHANGED <<exVars, evVars, plVars, dbVars, fbVars>>
    \/ \E i \in Tasks : GradingReturnsWith(i, PipelineGradings)
          /\ UNCHANGED <<exVars, evVars, plVars, dbVars, fbVars>>
    \/ \E i \in Tasks : GradingRaisesWith(i, {"rate_limit"}, {45})
          /\ UNCHANGED <<exVars, evVars, plVars, dbVars, fbVars>>
    \/ \E i \in Tasks : WakeUpWith(i, {45})
          /\ UNCHANGED <<exVars, evVars, plVars, dbVars, fbVars>>
    \/ Gather /\ UNCHANGED <<exVars, evVars, plVars, dbVars, fbVars>>

SpecPool == InitPoolRun /\ [][NextPoolRun]_vars

\* Calls on one ResultsDB, in any order.
InitDbRun == ExtractIdle /\ CompareIdle /\ EvalIdle /\ PipelineIdle /\ InitDb
    /\ FeedbackIdle

NextDbRun ==
    \/ InsertResult /\ UNCHANGED <<exVars, cmpVars, evVars, plVars, fbVars>>
    \/ GetAllResultsDf /\ UNCHANGED <<exVars, cmpVars, evVars, plVars, fbVars>>
    \/ ClearDatabase /\ UNCHANGED <<exVars, cmpVars, evVars, plVars, fbVars>>

SpecDb == InitDbRun /\ [][NextDbRun]_vars

\* Calls of generate_complete_feedback on one FeedbackGenerator.
InitFeedbackRun == ExtractIdle /\ CompareIdle /\ EvalIdle /\ PipelineIdle /\ DbIdle
    /\ InitFeedback

NextFeedbackRun ==
    \/ GenerateCompleteFeedbackCall
          /\ UNCHANGED <<exVars, cmpVars, evVars, plVars, dbVars>>

SpecFeedback == InitFeedbackRun /\ [][NextFeedbackRun]_vars

\* One run of run_correction_pipeline, its phases in the order of run_async.
InitPipelineRun == InitPipeline /\ CompareIdle /\ EvalIdle /\ DbIdle

NextPipelineRun ==
    \/ Construct /\ UNCHANGED dbVars
    \/ CheckPrerequisites /\ UNCHANGED <<dbVars, fbVars>>
    \/ run_pc = "extract" /\ BeginFile /\ UNCHANGED <<cmpVars, evVars, plVars, dbVars, fbVars>>
    \/ run_pc = "extract" /\ AcquireGate /\ UNCHANGED <<cmpVars, evVars, plVars, dbVars, fbVars>>
    \/ run_pc = "extract" /\ Sleep /\ UNCHANGED <<cmpVars, evVars, plVars, dbVars, fbVars>>
    \/ run_pc = "extract" /\ IssueCall /\ UNCHANGED <<cmpVars, evVars, plVars, dbVars, fbVars>>
    \/ run_pc = "extract" /\ CallReturnsWith(PipelineTranscriptions)
          /\ UNCHANGED <<cmpVars, evVars, plVars, dbVars, fbVars>>
    \/ run_pc = "extract" /\ CallRaises /\ UNCHANGED <<cmpVars, evVars, plVars, dbVars, fbVars>>
    \/ ExtractPhaseReturns /\ UNCHANGED <<dbVars, fbVars>>
    \/ run_pc = "compare" /\ StartCompare /\ UNCHANGED <<exVars, evVars, plVars, dbVars, fbVars>>
    \/ \E i \in Tasks : run_pc = "compare" /\ RunTask(i)
          /\ UNCHANGED <<exVars, evVars, plVars, dbVars, fbVars>>
    \/ \E i \in Tasks : run_pc = "compare"
          /\ GradingReturnsWith(i, PipelineGradings)
          /\ UNCHANGED <<exVars, evVars, plVars, dbVars, fbVars>>
    \/ \E i \in Tasks : run_pc = "compare"
          /\ GradingRaisesWith(i, ErrorKinds, PipelineCosines)
          /\ UNCHANGED <<exVars, evVars, plVars, dbVars, fbVars>>
    \/ \E i \in Tasks : run_pc = "compare" /\ WakeUpWith(i, PipelineCosines)
          /\ UNCHANGED <<exVars, evVars, plVars, dbVars, fbVars>>
    \/ run_pc = "compare" /\ Gather /\ UNCHANGED <<exVars, evVars, plVars, dbVars, fbVars>>
    \/ ComparisonPhaseReturns /\ UNCHANGED <<dbVars, fbVars>>
    \/ EvaluationPhase /\ UNCHANGED <<dbVars, fbVars>>
    \/ FeedbackPhase /\ UNCHANGED dbVars
    \/ SaveResults /\ UNCHANGED <<dbVars, fbVars>>

SpecPipeline == InitPipelineRun /\ [][NextPipelineRun]_vars

(***************************************************************************)
(* Claims about extraction (SpecExtract)                                   *)
(***************************************************************************)
\* The pages extract_from_file has so far for file d.
PagesOf(d) == IF d <= Len(extracted) THEN extracted[d].pages ELSE pages_content

\* C1: at most one transcription request is in flight at any time, over all
\* pages of all documents of the run, and a request is in flight only while
\* the capacity-1 gate is held.
C1_OneTranscriptionInFlight ==
    /\ inflight \in {0, 1}
    /\ rate_limit_lock \in {0, 1}
    /\ inflight = 1 => rate_limit_lock = 0

\* C1 witness: the call for the student's second page is in flight, after the
\* teacher document was extracted.
C1_Witness ==
    /\ inflight = 1
    /\ Len(extracted) >= 1
    /\ docs[ex_doc].source = "student"
    /\ ex_page = 1

\* C2: a page whose transcription call raised has a record at its page_no
\* with empty content, confidence 0 and name and roll "Unknown", and the
\* document it belongs to is returned without an error, with all its pages.
C2_PageFailureIsLocal ==
    \A f \in raised :
        LET d == f[1]
            p == f[2]
        IN /\ p \in 1..Len(PagesOf(d))
           /\ PagesOf(d)[p].page_no = p
           /\ PagesOf(d)[p].content = EmptyText
           /\ PagesOf(d)[p].extraction_confidence = 0
           /\ PagesOf(d)[p].student_name = "Unknown"
           /\ PagesOf(d)[p].roll_no = "Unknown"
           /\ d <= Len(extracted) =>
                 /\ "error" \notin DOMAIN extracted[d]
                 /\ Len(extracted[d].pages) = docs[d].images

\* C2 witness: a returned document whose first page failed and whose second
\* page was transcribed afterwards.
C2_Witness ==
    \E d \in 1..Len(extracted) :
        /\ <<d, 1>> \in raised
        /\ <<d, 2>> \notin raised
        /\ Len(extracted[d].pages) = 2
        /\ extracted[d].pages[2].content # EmptyText

\* C3: for a source of n page images extract_from_file returns n records in
\* source order, page_no = 1..n, total_pages = n, whichever pages failed; the
\* list being built has page_no = 1..k at every moment.
C3_PagesInSourceOrder ==
    /\ \A k \in 1..Len(pages_content) : pages_content[k].page_no = k
    /\ \A d \in 1..Len(extracted) :
          docs[d].readable =>
             /\ "error" \notin DOMAIN extracted[d]
             /\ extracted[d].total_pages = docs[d].images
             /\ Len(extracted[d].pages) = docs[d].images
             /\ \A k \in 1..Len(extracted[d].pages) :
                   extracted[d].pages[k].page_no = k

\* C3 witness: a returned two-page document whose first page failed.
C3_Witness ==
    \E d \in 1..Len(extracted) :
        /\ docs[d].images = 2
        /\ extracted[d].total_pages = 2
        /\ <<d, 1>> \in raised

(***************************************************************************)
(* Claims about the comparator (SpecCompare)                               *)
(***************************************************************************)
\* The master key: the content of all key pages concatenated in page order.
RECURSIVE MasterKeyUpTo(_)
MasterKeyUpTo(k) ==
    IF k = 0 THEN EmptyText
    ELSE Concat(MasterKeyUpTo(k - 1), teacher_pages[k].content)
MasterKey == MasterKeyUpTo(Len(teacher_pages))

\* C4 (as claimed): compare_documents returns exactly one record for every
\* page of the student document, whatever the number of key pages.
C4_OneRecordPerStudentPage ==
    cmp_pc = "done" => Len(results) = Len(student_pages)

RECURSIVE StreakUpTo(_, _)
StreakUpTo(msgs, k) ==
    IF k = 0 \/ msgs[k] # "rate_limit" THEN 0 ELSE 1 + StreakUpTo(msgs, k - 1)
RateLimitStreak(i) == StreakUpTo(error_msgs[i], Len(error_msgs[i]))

\* C6 (as claimed): one fragment gets at most RetryCount grading calls, and
\* the wait after the k-th consecutive rate-limit failure, k = 0, 1, 2, lasts
\* 2 * 2^k seconds.
C6_WaitDoublesPerConsecutiveRateLimit ==
    \A i \in Tasks :
        /\ grading_calls[i] \in 0..RetryCount
        /\ (task_pc[i] = "sleeping" /\ LastError(i) = "rate_limit") =>
              wait_time[i] = 2 * Pow2(RateLimitStreak(i) - 1)

\* C6 (amended): one fragment gets at most RetryCount grading calls, one per
\* attempt; the wait after a rate-limit failure of the attempt of index 0, 1,
\* 2 lasts 2, 4, 8 seconds, whatever the class of the earlier failures; the
\* wait after a failure of another class lasts 1 second; no call follows the
\* last attempt.
C6_BoundedRetriesWithBackoff ==
    \A i \in Tasks :
        /\ grading_calls[i] \in 0..RetryCount
        /\ attempt[i] \in 0..(RetryCount - 1)
        /\ task_pc[i] \in {"calling", "sleeping"} =>
              grading_calls[i] = attempt[i] + 1
        /\ task_pc[i] = "sleeping" =>
              /\ Len(error_msgs[i]) = attempt[i] + 1
              /\ wait_time[i] =
                    IF LastError(i) = "rate_limit"
                    THEN CASE attempt[i] = 0 -> 2
                           [] attempt[i] = 1 -> 4
                           [] attempt[i] = 2 -> 8
                    ELSE 1

\* C6 witness: the sleep of 8 seconds after the third call was rate limited,
\* the first call having failed with an error of the other class.
C6_Witness ==
    \E i \in Tasks :
        /\ task_pc[i] = "sleeping"
        /\ error_msgs[i] = <<"other", "rate_limit", "rate_limit">>
        /\ grading_calls[i] = RetryCount
        /\ wait_time[i] = 8

\* A task all of whose RetryCount grading calls raised.
AllAttemptsFailed(i) ==
    /\ grading_calls[i] = RetryCount
    /\ attempt[i] = RetryCount - 1
    /\ Len(error_msgs[i]) = RetryCount

C8_SimilarityWithinUnitInterval ==
    /\ \A i \in Tasks :
          task_pc[i] = "done" => task_result[i].similarity \in 0..100
    /\ \A k \in 1..Len(results) : results[k].similarity \in 0..100

\* C8 witness: returned records of a SCORE above 100 and of a negative SCORE.
C8_Witness ==
    /\ cmp_pc = "done"
    /\ \E i \in Tasks :
          /\ received[i] # None
          /\ received[i].text = "SCORE: 150"
          /\ results[i].similarity = 100
    /\ \E i \in Tasks :
          /\ received[i] # None
          /\ received[i].text = "SCORE: -20 / ANALYSIS:"
          /\ results[i].similarity = 0

\* The lines of a response that carry the score tag, the analysis tag.
ScoreLines(r) == {k \in 1..Len(r.lines) : r.lines[k].tag = "SCORE"}
AnalysisLines(r) == {k \in 1..Len(r.lines) : r.lines[k].tag = "ANALYSIS"}
LastOf(S) == CHOOSE k \in S : \A j \in S : j <= k
NoScoreTag(r) == ScoreLines(r) = {}
NonNumericScore(r) ==
    ScoreLines(r) # {} /\ ~r.lines[LastOf(ScoreLines(r))].numeric
NoAnalysisText(r) ==
    AnalysisLines(r) = {} \/ r.lines[LastOf(AnalysisLines(r))].rest = ""

SumMarksPossible == SumPossible(comparison_results, Len(comparison_results))

C11_AggregationNeverRaises ==
    /\ ev_pc # "raised"
    /\ ev_pc = "returned" => evaluation # None

\* C12 (as claimed): in every report, status is "pass" exactly when the
\* percentage field of that report is at least pass_threshold.
C12_StatusMatchesReportedPercentage ==
    ev_pc = "returned" =>
        (evaluation.status = "pass"
            <=> evaluation.percentage >= 100 * pass_threshold)

(***************************************************************************)
(* Claims about calculate_grade (SpecGrade)                                *)
(***************************************************************************)
\* The threshold table of calculate_grade, highest first, and the grades from
\* worst to best.
GradeThresholds ==
    << [min |-> 90, grade |-> "A+"], [min |-> 85, grade |-> "A"],
       [min |-> 80, grade |-> "A-"], [min |-> 75, grade |-> "B+"],
       [min |-> 70, grade |-> "B"], [min |-> 65, grade |-> "B-"],
       [min |-> 60, grade |-> "C+"], [min |-> 55, grade |-> "C"],
       [min |-> 50, grade |-> "C-"], [min |-> 45, grade |-> "D+"],
       [min |-> 40, grade |-> "D"] >>
GradeOrder ==
    <<"F", "D", "D+", "C-", "C", "C+", "B-", "B", "B+", "A-", "A", "A+">>
GradeRank(g) == CHOOSE k \in 1..Len(GradeOrder) : GradeOrder[k] = g

\* The grade of the highest threshold not exceeding percentage p
\* (hundredths), the failing grade when there is none.
HighestThresholdGrade(p) ==
    LET reached == {k \in 1..Len(GradeThresholds) :
                       100 * GradeThresholds[k].min <= p}
    IN IF reached = {} THEN "F"
       ELSE GradeThresholds[CHOOSE k \in reached : \A j \in reached : k <= j].grade

\* C13: calculate_grade gives the grade of the highest threshold not
\* exceeding the percentage: 92 is "A+", 41 is "D" (the lowest passing
\* grade), exactly 90 is "A+", exactly 40 is "D" and not "F"; and of two
\* calls the one with the higher percentage never gets the worse grade.
C13_GradeIsStepFunction ==
    /\ \A i \in 1..Len(grades) :
          /\ grades[i].grade = HighestThresholdGrade(grades[i].percentage)
          /\ grades[i].percentage = 9200 => grades[i].grade = "A+"
          /\ grades[i].percentage = 9000 => grades[i].grade = "A+"
          /\ grades[i].percentage = 4100 => grades[i].grade = "D"
          /\ grades[i].percentage = 4000 => grades[i].grade = "D"
          /\ grades[i].percentage < 4000 <=> grades[i].grade = "F"
    /\ \A i, j \in 1..Len(grades) :
          grades[i].percentage <= grades[j].percentage =>
              GradeRank(grades[i].grade) <= GradeRank(grades[j].grade)

\* C13 witness: calculate_grade was called with exactly 40 and exactly 90.
C13_Witness ==
    /\ Len(grades) = 2
    /\ grades[1] = [percentage |-> 4000, grade |-> "D"]
    /\ grades[2] = [percentage |-> 9000, grade |-> "A+"]

(***************************************************************************)
(* Claims about repeated calls of the evaluator (SpecEval)                 *)
(***************************************************************************)
\* The evaluation a call returned: the value of evaluate_comparisons, the
\* "evaluation" entry of generate_evaluation_report's value.
EvaluationPart(ret) ==
    IF ret.fn = "evaluate_comparisons" THEN ret.value ELSE ret.value.evaluation

\* A generated report with its evaluation_date blanked.
WithoutDate(ret) ==
    IF ret.fn = "evaluate_comparisons" THEN ret.value
    ELSE [ret.value EXCEPT !.metadata.evaluation_date = ""]

RepeatedCallsAgree ==
    \A i, j \in 1..Len(ev_returns) :
        /\ EvaluationPart(ev_returns[i]) = EvaluationPart(ev_returns[j])
        /\ ev_returns[i].fn = ev_returns[j].fn =>
              WithoutDate(ev_returns[i]) = WithoutDate(ev_returns[j])

RECURSIVE SumMarksEarned(_, _)
SumMarksEarned(records, k) ==
    IF k = 0 THEN 0
    ELSE SumMarksEarned(records, k - 1)
         + (IF "marks_earned" \in DOMAIN records[k]
            THEN records[k].marks_earned ELSE 0)

ExactlyEightyPercent ==
    /\ ev_pc = "returned"
    /\ total_marks = 5
    /\ evaluation.total_score = 400
    /\ evaluation.percentage = 8000
    /\ evaluation.grade = "A-"

(***************************************************************************)
(* Claims about run_correction_pipeline (SpecPipeline)                     *)
(***************************************************************************)
\* The run got past CorrectionPipeline.__init__ and check_api_prerequisites.
PastConfigurationCheck == run_pc \notin {"idle", "construct", "check"}
               /\ ~(run_pc = "raised" /\ run_error = "ValueError")

\* Every grading call of the run ended in the fallback.
EveryGradingCallDegraded ==
    /\ requests # {}
    /\ \A i \in Tasks : grading_calls[i] > 0 => AllAttemptsFailed(i)

\* The run returned a complete report and feedback.
ReturnedComplete ==
    /\ run_pc = "returned"
    /\ evaluation_report # None
    /\ evaluation_report.evaluation.status \in {"pass", "fail"}
    /\ feedback # None

\* C16: a run that got past the configuration check does not end with an
\* exception: it returns a complete report and feedback, and when every
\* grading call degraded the report has total_score 0 and status "fail".
C16_RunAlwaysReturnsAReport ==
    PastConfigurationCheck =>
        /\ run_pc # "raised"
        /\ run_pc = "returned" =>
              /\ ReturnedComplete
              /\ EveryGradingCallDegraded =>
                    /\ evaluation_report.evaluation.total_score = 0
                    /\ evaluation_report.evaluation.status = "fail"

\* The two ways the run departs from C16, each a reachable state.
C16_RunRaisesKeyError ==
    /\ api_key = "valid"
    /\ run_pc = "raised"
    /\ run_error = "KeyError"
    /\ \E d \in 1..Len(docs) : ~docs[d].readable
C16_DegradedRunScores ==
    /\ ReturnedComplete
    /\ EveryGradingCallDegraded
    /\ evaluation_report.evaluation.total_score > 0

\* C17: with a GEMINI_API_KEY that is missing or not of the expected format
\* the run ends with an exception before any transcription or grading
\* request, and nothing is extracted, compared, evaluated or saved.
C17_InvalidKeyStopsBeforeAnyRequest ==
    ~VerifyGeminiApiKey(api_key) =>
        /\ run_pc \in {"construct", "check", "raised"}
        /\ run_pc = "raised" => run_error = "ValueError"
        /\ calls_issued = 0 /\ inflight = 0 /\ requests = {}
        /\ ex_pc = "idle" /\ extracted = <<>>
        /\ cmp_pc = "idle" /\ results = <<>>
        /\ ev_pc = "idle" /\ evaluation = None /\ evaluation_report = None
        /\ feedback = None /\ saved = {}

\* A key that the constructors accept and check_api_prerequisites rejects.
C17_Witness ==
    /\ api_key \in {"short", "bad_prefix"}
    /\ run_pc = "raised"
    /\ run_error = "ValueError"

\* C18: the phases do not overlap: no grading request before extraction of
\* every document is complete, no evaluation before every page comparison
\* returned, no feedback before the report, nothing saved before feedback.
C18_PhasesAreSequential ==
    /\ (cmp_pc # "idle" \/ requests # {}) =>
          /\ ex_pc = "done" /\ inflight = 0
          /\ Len(extracted) = Len(docs)
    /\ (ev_pc # "idle" \/ evaluation # None) =>
          /\ cmp_pc = "done"
          /\ \A i \in Tasks : task_pc[i] = "done"
          /\ Len(results) = Len(task_pc)
    /\ feedback # None => evaluation_report # None
    /\ saved # {} => feedback # None

\* A run whose every phase has acted: pages transcribed, a grading request
\* made, the report, the feedback and the files written.
C18_Witness ==
    /\ run_pc = "returned"
    /\ saved # {}
    /\ requests # {}
    /\ Len(extracted) = 2
    /\ Len(results) = 2

(***************************************************************************)
(* Claims about the comparator's thread pool (SpecPool)                    *)
(***************************************************************************)
\* The tasks whose grading call is executing.
Calling == {j \in Tasks : task_pc[j] = "calling"}

\* A worker is free when task i's grading call starts.
StartsOnFreeWorker ==
    \A i \in Tasks :
        (task_pc[i] = "queued" /\ task_pc'[i] # "queued") =>
            Cardinality(Busy) < MaxWorkers

\* C19: at most 3 grading calls of the comparator execute at a time,
\* however many pages are compared (no more than MaxWorkers tasks hold a
\* worker), and a further page's call starts only when a worker is free.
C19_AtMostThreeGradingCalls ==
    /\ [](Cardinality(Calling) <= MaxWorkers /\ Cardinality(Busy) <= MaxWorkers)
    /\ [][StartsOnFreeWorker]_vars

\* Four pages: three calls executing, the fourth page waiting for a worker.
C19_Witness ==
    /\ Len(task_pc) > MaxWorkers
    /\ Cardinality(Calling) = MaxWorkers
    /\ task_pc[MaxWorkers + 1] = "queued"

\* The fourth page's call started once a worker was free.
C19_FourthStartsWhenWorkerFree ==
    /\ Len(task_pc) > MaxWorkers
    /\ task_pc[MaxWorkers + 1] = "calling"
    /\ Cardinality(Busy) = MaxWorkers
    /\ \E j \in 1..MaxWorkers : task_pc[j] = "done"

(***************************************************************************)
(* Claims about failures among concurrent page comparisons (SpecCompare)   *)
(***************************************************************************)
\* A record the evaluator can use: a similarity in [0, 1], an analysis text
\* and the page numbers of the pair compared.
UsableRecord(i, r) ==
    /\ r # None
    /\ r.similarity \in 0..100
    /\ r.analysis # ""
    /\ r.teacher_page_no = teacher_pages[i].page_no
    /\ r.student_page_no = student_pages[i].page_no

\* The record of page i is the degraded one: the local similarity with the
\* fallback's analysis text.
DegradedRecord(i, r) ==
    \E cosine \in CosineValues :
       r = PageResult(i, FallbackResult(LastError(i), TeacherContent(i),
                             StudentContent(i), cosine))

\* compare_documents returned a usable record for every compared page.
EveryPageHasItsRecord ==
    cmp_pc = "done" =>
        /\ Len(results) = Min(Len(teacher_pages), Len(student_pages))
        /\ \A i \in 1..Len(results) :
              /\ UsableRecord(i, results[i])
              /\ AllAttemptsFailed(i) => DegradedRecord(i, results[i])
              /\ received[i] # None =>
                    results[i] = PageResult(i, ParsedResult(received[i]))

\* A step in which a grading call of page i failed leaves every other
\* page's comparison as it was.
FailureLeavesSiblingsAlone ==
    \A i \in Tasks :
        (i \in DOMAIN error_msgs' /\ error_msgs'[i] # error_msgs[i]) =>
            \A j \in Tasks \ {i} :
                /\ task_pc'[j] = task_pc[j]
                /\ task_result'[j] = task_result[j]
                /\ attempt'[j] = attempt[j]
                /\ received'[j] = received[j]
                /\ error_msgs'[j] = error_msgs[j]

Inserts == {k \in 1..Len(db_log) :
               db_log[k].fn = "insert_result" /\ ~db_log[k].raised}

\* clear_database was called after call k.
ClearedAfter(k) ==
    \E c \in (k + 1)..Len(db_log) : db_log[c].fn = "clear_database"

\* C21: the row insert_result stores holds score_variance = teacher score
\* - AI score of the two scores given to that call, and the name, roll,
\* subject, max score and grade passed in.
C21_StoredVarianceIsTeacherMinusAi ==
    \A k \in Inserts :
        LET e == db_log[k]
        IN /\ e.row.score_variance =
                 e.args.teacher_score.value - e.args.ai_score.value
           /\ e.row.ai_score = e.args.ai_score.value
           /\ e.row.teacher_score = e.args.teacher_score.value
           /\ e.row.student_name = e.args.name
           /\ e.row.roll_no = e.args.roll
           /\ e.row.subject = e.args.subject
           /\ e.row.max_score = e.args.max_m.value
           /\ e.row.grade = e.args.grade
           /\ ~ClearedAfter(k) => e.row \in db_rows

\* AI 70, human 75, max 100: the stored variance is 5; and AI "75",
\* human "70": the stored variance is -5.
C21_Witness ==
    /\ \E r \in db_rows : /\ r.ai_score = 7000 /\ r.teacher_score = 7500
                          /\ r.max_score = 10000 /\ r.score_variance = 500
    /\ \E r \in db_rows : /\ r.ai_score = 7500 /\ r.teacher_score = 7000
                          /\ r.score_variance = -500

\* The last call was get_all_results_df; what it returned.
LastCallIsGetAll ==
    db_log # <<>> /\ db_log[Len(db_log)].fn = "get_all_results_df"
Returned == db_log[Len(db_log)].value

\* The call of db_log that stored row r.
InsertedAt(r) == CHOOSE k \in Inserts : db_log[k].row = r

\* C22: get_all_results_df returns the stored records most recently
\* inserted first: the record inserted last is the first row and a record
\* inserted earlier never precedes one inserted later.
C22_MostRecentlyInsertedFirst ==
    LastCallIsGetAll =>
        /\ {Returned[i] : i \in 1..Len(Returned)} = db_rows
        /\ Len(Returned) = Cardinality(db_rows)
        /\ \A r \in db_rows : \E k \in Inserts : db_log[k].row = r
        /\ \A i, j \in 1..Len(Returned) :
              i < j => InsertedAt(Returned[i]) > InsertedAt(Returned[j])
        /\ Returned # <<>> =>
              \A k \in Inserts : k <= InsertedAt(Returned[1])

\* Two records inserted within the same second, then listed.
C22_Witness ==
    /\ LastCallIsGetAll
    /\ Len(Returned) = 2
    /\ Returned[1].timestamp <= Returned[2].timestamp
    /\ Returned[1].id > Returned[2].id

FeedbackCalls == 1..Len(fb_log)

\* Two calls on the same evaluation returned the same text.
SameEvaluationSameText ==
    \A a, b \in FeedbackCalls :
        fb_log[a].evaluation = fb_log[b].evaluation =>
            fb_log[a].text = fb_log[b].text

TemplatePage(a, i) ==
    fb_log[a].text.pages[i] = TemplateFeedback(fb_log[a].evaluation.page_scores[i])

\* Page i of call a went to the model: both documents were given with a
\* non-empty page i, and the prompt carrying their texts was sent.
AiPage(a, i) ==
    LET e == fb_log[a]
    IN /\ use_ai /\ gemini_model
       /\ e.teacher_data # None /\ e.student_data # None
       /\ i <= Len(e.teacher_data.pages) /\ i <= Len(e.student_data.pages)
       /\ FeedbackPrompt(e.evaluation.page_scores[i],
                         e.teacher_data.pages[i].content,
                         e.student_data.pages[i].content) \in fb_requests

C24_AiFeedbackReadsDocuments ==
    /\ use_ai /\ gemini_model
    /\ fb_requests # {}
    /\ \E a, b \in FeedbackCalls :
          /\ fb_log[a].evaluation = fb_log[b].evaluation
          /\ fb_log[a].text # fb_log[b].text

PageRecords ==
    {pages_content[k] : k \in 1..Len(pages_content)}
    \cup UNION {{extracted[d].pages[k] : k \in 1..Len(extracted[d].pages)}
                   : d \in 1..Len(extracted)}

\* C26: every page record has a content and an extraction_confidence
\* within [0, 1], whatever text the model returned.
C26_ConfidenceWithinUnitInterval ==
    \A r \in PageRecords :
        /\ "content" \in DOMAIN r
        /\ r.content = EmptyText \/ Len(r.content) >= 1
        /\ r.extraction_confidence \in 0..100

\* A page record whose confidence is the 85 of the response.
C26_ConfidenceAboveOne ==
    \E r \in PageRecords : r.extraction_confidence = 8500

\* A step that issues a transcription call.
CallStarts == inflight' = inflight + 1

\* The step that completes asyncio.sleep(5), the gate being held.
SleepEnds ==
    /\ ex_pc = "sleep" /\ ex_pc' = "call"
    /\ rate_limit_lock = 0 /\ rate_limit_lock' = 0

\* C27: every transcription call is immediately preceded by the fixed
\* sleep, taken while the gate is held: a call is issued only from the
\* position the completed sleep leads to, that position is reached by no
\* other step, and nothing happens between the end of the sleep and the
\* call; so a full sleep lies between the starts of any two calls.
C27_SleepBeforeEveryCall ==
    /\ [][CallStarts => ex_pc = "call" /\ rate_limit_lock = 0]_vars
    /\ [][(ex_pc' = "call" /\ ex_pc # "call") => SleepEnds]_vars
    /\ [][(ex_pc = "call" /\ ex_pc' # "call") => CallStarts]_vars
    /\ [](ex_pc \in {"sleep", "call", "inflight"} => rate_limit_lock = 0)

\* The second call of a document is in flight, after the first page's
\* call raised.
C27_Witness ==
    /\ ex_pc = "inflight"
    /\ calls_issued = 2
    /\ <<ex_doc, 1>> \in raised

\* The file extract_from_file returned last.
LastExtracted == Len(extracted)

\* C28: the gate is held only for one page's sleep-and-call and released
\* when the call returns or raises; the gate is free whenever no page is
\* being transcribed; the extraction of an n-page document ends after
\* exactly n transcription calls; and, each call returning or raising,
\* extract_documents terminates, failed pages included.
C28_GateReleasedAndExtractionTerminates ==
    /\ [](ex_pc \notin {"sleep", "call", "inflight"} => rate_limit_lock = 1)
    /\ [][inflight' < inflight => rate_limit_lock' = 1]_vars
    /\ []((ex_pc \in {"begin_file", "done"} /\ LastExtracted >= 1) =>
             /\ calls_issued = docs[LastExtracted].images
             /\ docs[LastExtracted].readable =>
                   extracted[LastExtracted].total_pages =
                       docs[LastExtracted].images)
    /\ [](ex_pc \in {"gate", "sleep", "call", "inflight"} =>
             calls_issued <= docs[ex_doc].images)
    /\ <>(ex_pc = "done" /\ Len(extracted) = Len(docs) /\ inflight = 0)

\* The whole run is over although the two calls of a document raised: the
\* document has its two records and the gate is free.
C28_Witness ==
    /\ ex_pc = "done"
    /\ rate_limit_lock = 1
    /\ \E d \in 1..Len(docs) :
          /\ docs[d].images = 2
          /\ {<<d, 1>>, <<d, 2>>} \subseteq raised
          /\ extracted[d].total_pages = 2

(***************************************************************************)
(* Further claims about the evaluator (SpecEval) and the comparator        *)
(***************************************************************************)
\* C29: for records with similarity in [0, 1] and positive total_marks,
\* every page's marks_awarded is between 0 and its max_marks and the
\* report's total_score never exceeds max_score, so percentage <= 100.
C29_TotalNeverExceedsMaxScore ==
    (evaluation # None /\ total_marks > 0) =>
        /\ \A i \in 1..Len(evaluation.page_scores) :
              /\ evaluation.page_scores[i].marks_awarded >= 0
              /\ evaluation.page_scores[i].marks_awarded
                    <= evaluation.page_scores[i].max_marks
        /\ evaluation.total_score <= evaluation.max_score
        /\ evaluation.percentage <= 10000

\* The part of C29 that holds: the marks of every page are within the
\* page's max_marks.
C29_PageMarksWithinMaxMarks ==
    (evaluation # None /\ total_marks > 0) =>
        \A i \in 1..Len(evaluation.page_scores) :
            /\ evaluation.page_scores[i].marks_awarded >= 0
            /\ evaluation.page_scores[i].marks_awarded
                  <= evaluation.page_scores[i].max_marks

\* Three pages of similarity 0.95 with total_marks 5: 1.67 each, 5.01 of 5.
C29_TotalAboveMaxScore ==
    /\ evaluation # None
    /\ total_marks = 5
    /\ evaluation.total_score = 501
    /\ evaluation.max_score = 500
    /\ evaluation.percentage = 10020

\* The record r is the result of comparing teacher page i with student
\* page i: it carries their page numbers, and the grading requests made
\* for it carried the texts of exactly those two pages.
RecordOfPagePair(i, r) ==
    /\ r.teacher_page_no = teacher_pages[i].page_no
    /\ r.student_page_no = student_pages[i].page_no
    /\ \A q \in requests :
          q.task = i =>
             /\ q.key = Slice(teacher_pages[i].content, PromptLimit)
             /\ q.student = Slice(student_pages[i].content, PromptLimit)
    /\ received[i] # None =>
          r.similarity = ParsedResult(received[i]).similarity
    /\ (method = "gemini" /\ received[i] = None /\ grading_calls[i] = 0) =>
          r.similarity = 0

\* C30: compare_documents returns its records in page order, the i-th
\* record being the result of comparing the i-th teacher page with the
\* i-th student page, in whatever order the grading calls complete: every
\* finished comparison sits in the slot of its own page, and the list
\* returned is the slots in order.
C30_RecordsInPageOrder ==
    /\ \A i \in Tasks :
          task_result[i] # None => RecordOfPagePair(i, task_result[i])
    /\ cmp_pc = "done" =>
          /\ Len(results) = Min(Len(teacher_pages), Len(student_pages))
          /\ \A i \in 1..Len(results) :
                /\ results[i] = task_result[i]
                /\ RecordOfPagePair(i, results[i])

\* Page 2's grading call returned while page 1's is still running.
C30_LaterPageCompletesFirst ==
    /\ cmp_pc = "gather"
    /\ Len(task_pc) = 2
    /\ task_pc[1] \in {"calling", "sleeping"}
    /\ task_pc[2] = "done"
    /\ received[2] # None

\* Two pages returned, page 1 after all its retries and page 2 from its
\* first call, each record in its page's position.
C30_Witness ==
    /\ cmp_pc = "done"
    /\ Len(results) = 2
    /\ AllAttemptsFailed(1)
    /\ received[2] # None /\ error_msgs[2] = <<>>
    /\ results[1].teacher_page_no = 1 /\ results[2].teacher_page_no = 2
    /\ results[1].similarity # results[2].similarity

====
